---------------------------- MODULE Spec2Model ----------------------------
(***************************************************************************)
(* Model of the box-stl-generator geometry kernel and of the App           *)
(* regeneration effect around it.                                          *)
(*                                                                         *)
(* Lengths are integers in units of 0.001 mm (MM units per millimetre).    *)
(* Every parameter is taken on the grid the control panel allows (width,   *)
(* depth, height: whole mm; wall thickness, chamfer, lip height: 0.5 mm;   *)
(* tolerance: 0.05 mm; divisions: whole percent), so every coordinate the  *)
(* code computes (halves, quarters, percentages, the 0.1/0.2/0.4 CSG       *)
(* margins, the 0.001 and 0.01 epsilons) is an exact integer here and      *)
(* \div never rounds.                                                      *)
(***************************************************************************)
EXTENDS Integers, Sequences, FiniteSets, TLC

VARIABLES
    params,         \* kernel specs: the Parameter Record handed to the builders
    boxPolys,       \* polygons returned by generateBox, or NotRun
    flatLid,        \* polygons returned by generateFlatLid, or NotRun
    csgLid,         \* solid returned by generateLidCSG, Throws, or NotRun
    canvas,         \* raster surface acquired by textToJscadGeometry, or NoCanvas
    textGeom,       \* value returned by textToJscadGeometry (Null for null), or NotRun
    lidResult,      \* value returned by generateLid, or NotRun
    geometry,       \* App state: display geometry of the box
    lidGeometry,    \* App state: display geometry of the lid
    hingeBoxGeometry,
    hingeLidGeometry,
    boxJscad,       \* App state: exportable box
    lidJscad,       \* App state: exportable lid
    hingeBoxJscad,
    hingeLidJscad,
    hingePinJscad,
    effect,         \* App: "pending" after setParams, then "done" or "caught"
    triangles,      \* serializer: [returned |-> what jscadToTriangles returned], or NotRun
    stl,            \* serializer: [returned |-> the text trianglesToSTL returned], or NotRun
    downloads,      \* the files handed to the browser by downloadSTL, in order
    calls           \* kernel calls made so far: the record given, the list returned

kernelVars == <<params, boxPolys, flatLid, csgLid>>
textVars == <<canvas, textGeom, lidResult>>
geomState == <<geometry, lidGeometry, hingeBoxGeometry, hingeLidGeometry,
               boxJscad, lidJscad, hingeBoxJscad, hingeLidJscad, hingePinJscad>>
appVars == <<geomState, effect>>
exportVars == <<triangles, stl, downloads>>
callVars == <<calls>>

vars == <<kernelVars, textVars, appVars, exportVars, callVars>>

NotRun == [op |-> "not-run"]
Null == [op |-> "null"]
NoCanvas == [op |-> "no-canvas"]

\* The parts of the state a specification does not exercise
TextUnused == canvas = NoCanvas /\ textGeom = NotRun /\ lidResult = NotRun
ExportUnused == triangles = NotRun /\ stl = NotRun /\ downloads = <<>>
CallsUnused == calls = <<>>
AppUnused ==
    /\ geometry = Null /\ lidGeometry = Null
    /\ hingeBoxGeometry = Null /\ hingeLidGeometry = Null
    /\ boxJscad = Null /\ lidJscad = Null
    /\ hingeBoxJscad = Null /\ hingeLidJscad = Null /\ hingePinJscad = Null
    /\ effect = "done"

-----------------------------------------------------------------------------
(* Units and numeric helpers                                               *)

MM == 1000
EPS == 1

\* App.tsx DEFAULTS; lidText is a sequence of characters
DEFAULTS ==
    [width |-> 80 * MM, depth |-> 60 * MM, height |-> 40 * MM, wallThickness |-> 2 * MM,
     includeLid |-> FALSE, lidHeight |-> 5 * MM, lidTolerance |-> 300,
     divisionsX |-> <<>>, divisionsZ |-> <<>>,
     lidText |-> <<>>, lidTextDepth |-> 800, lidTextSize |-> 16 * MM,
     lidTextStyle |-> "engraved", chamferSize |-> 0,
     includeHinge |-> FALSE, hingeCount |-> 1, hingeDiameter |-> 8 * MM,
     hingePinDiameter |-> 2500]

Abs(x) == IF x < 0 THEN -x ELSE x
Min2(a, b) == IF a <= b THEN a ELSE b
Max2(a, b) == IF a >= b THEN a ELSE b
Min4(a, b, c, d) == Min2(Min2(a, b), Min2(c, d))

RECURSIVE Flatten(_)
Flatten(ss) ==
    IF Len(ss) = 0 THEN <<>>
    ELSE IF Len(ss) = 1 THEN ss[1]
    ELSE LET h == Len(ss) \div 2
         IN  Flatten(SubSeq(ss, 1, h)) \o Flatten(SubSeq(ss, h + 1, Len(ss)))

\* [...list].sort((a, b) => a - b)
SortAsc(s) == SortSeq(s, LAMBDA a, b : a < b)

\* [...list].sort((a, b) => a - b): the spread makes a new array and sort
\* orders that array in place; `list` is what the array spread holds afterwards
sortedCopy_inPlace(list) == [sorted |-> SortAsc(list), list |-> SortAsc(list)]
sortedCopy(list) == [sorted |-> SortAsc(list), list |-> list]

DivPositions_noOffset(divs, inner) ==
    LET sorted == SortAsc(divs)
    IN  [k \in 1..Len(sorted) |-> (sorted[k] * inner) \div 100]

\* list.map(p => -inner/2 + (p / 100) * inner)
DivPositions(divs, inner) ==
    LET sorted == sortedCopy(divs).sorted
    IN  [k \in 1..Len(sorted) |-> -(inner \div 2) + (sorted[k] * inner) \div 100]

BandBreaks_upperFirst(lo, ds, half, hi) ==
    <<lo>> \o Flatten([k \in 1..Len(ds) |-> <<ds[k] + half, ds[k] - half>>]) \o <<hi>>

\* [lo] then (d - half, d + half) for each d, then [hi]
BandBreaks(lo, ds, half, hi) ==
    <<lo>> \o Flatten([k \in 1..Len(ds) |-> <<ds[k] - half, ds[k] + half>>]) \o <<hi>>

-----------------------------------------------------------------------------
(* generateBox                                                             *)

boxW2(p) == p.width \div 2
boxD2(p) == p.depth \div 2
boxH2(p) == p.height \div 2
boxIw(p) == p.width - 2 * p.wallThickness
boxId(p) == p.depth - 2 * p.wallThickness
boxIw2(p) == boxIw(p) \div 2
boxId2(p) == boxId(p) \div 2
boxFl(p) == -boxH2(p) + p.wallThickness

boxC_dropQuarter(p) == Min2(p.chamferSize, p.wallThickness)
boxC(p) == Min4(p.chamferSize, p.wallThickness, p.width \div 4, p.depth \div 4)

xDivs(p) == DivPositions(p.divisionsX, boxIw(p))
yDivs(p) == DivPositions(p.divisionsZ, boxId(p))

xIn(p) == BandBreaks(-boxIw2(p), xDivs(p), p.wallThickness \div 2, boxIw2(p))
yIn(p) == BandBreaks(-boxId2(p), yDivs(p), p.wallThickness \div 2, boxId2(p))

xAll(p) == <<-boxW2(p)>> \o xIn(p) \o <<boxW2(p)>>
yAll(p) == <<-boxD2(p)>> \o yIn(p) \o <<boxD2(p)>>

xAllC_noInset(p) == xAll(p)
xAllC(p) ==
    IF boxC(p) > 0
    THEN <<-boxW2(p), -boxW2(p) + boxC(p)>> \o xIn(p) \o <<boxW2(p) - boxC(p), boxW2(p)>>
    ELSE xAll(p)
yAllC(p) ==
    IF boxC(p) > 0
    THEN <<-boxD2(p), -boxD2(p) + boxC(p)>> \o yIn(p) \o <<boxD2(p) - boxC(p), boxD2(p)>>
    ELSE yAll(p)

inBand(ds, a, b, wt) ==
    \E k \in 1..Len(ds) : Abs((a + b) \div 2 - ds[k]) < wt \div 2 - EPS

isXDiv(p, a, b) == inBand(xDivs(p), a, b, p.wallThickness)
isYDiv_never(p, a, b) == FALSE
isYDiv(p, a, b) == inBand(yDivs(p), a, b, p.wallThickness)

\* grid(uB, vB, make, skip): cells in i-major, j-minor order
grid(uB, vB, make(_, _, _, _), skip(_, _, _, _)) ==
    LET nv == Len(vB) - 1
        n  == (Len(uB) - 1) * nv
    IN  Flatten([k \in 1..n |->
            LET i == (k - 1) \div nv + 1
                j == ((k - 1) % nv) + 1
            IN  IF skip(uB[i], uB[i + 1], vB[j], vB[j + 1]) THEN <<>>
                ELSE << make(uB[i], uB[i + 1], vB[j], vB[j + 1]) >>])

atMinX(p, x) == Abs(x - (-boxW2(p))) < EPS
atMaxX(p, x) == Abs(x - boxW2(p)) < EPS
atMinY(p, y) == Abs(y - (-boxD2(p))) < EPS
atMaxY(p, y) == Abs(y - boxD2(p)) < EPS

\* The per-cell bottom/top loops of the chamfered branch: corner cells are triangles.
cornerGrid(xB, yB, bl(_, _, _, _), br(_, _, _, _), tl(_, _, _, _), tr(_, _, _, _),
           quad(_, _, _, _), skip(_, _, _, _)) ==
    LET ny == Len(yB) - 1
        nx == Len(xB) - 1
    IN  Flatten([k \in 1..(nx * ny) |->
            LET i == (k - 1) \div ny + 1
                j == ((k - 1) % ny) + 1
                x0 == xB[i]
                x1 == xB[i + 1]
                y0 == yB[j]
                y1 == yB[j + 1]
            IN  IF skip(x0, x1, y0, y1) THEN <<>>
                ELSE IF i = 1 /\ j = 1 THEN << bl(x0, x1, y0, y1) >>
                ELSE IF i = nx /\ j = 1 THEN << br(x0, x1, y0, y1) >>
                ELSE IF i = 1 /\ j = ny THEN << tl(x0, x1, y0, y1) >>
                ELSE IF i = nx /\ j = ny THEN << tr(x0, x1, y0, y1) >>
                ELSE << quad(x0, x1, y0, y1) >>])

NoSkip(a, b, c, d) == FALSE

boxOuterChamfered(p) ==
    LET w2 == boxW2(p)
        d2 == boxD2(p)
        h2 == boxH2(p)
        c  == boxC(p)
        zB == <<-h2, h2>>
    IN  cornerGrid(xAllC(p), yAllC(p),
            LAMBDA x0, x1, y0, y1 : <<<<x1, y0, -h2>>, <<x0, y1, -h2>>, <<x1, y1, -h2>>>>,
            LAMBDA x0, x1, y0, y1 : <<<<x0, y0, -h2>>, <<x0, y1, -h2>>, <<x1, y1, -h2>>>>,
            LAMBDA x0, x1, y0, y1 : <<<<x0, y0, -h2>>, <<x1, y0, -h2>>, <<x1, y1, -h2>>>>,
            LAMBDA x0, x1, y0, y1 : <<<<x0, y0, -h2>>, <<x1, y0, -h2>>, <<x0, y1, -h2>>>>,
            LAMBDA x0, x1, y0, y1 :
                <<<<x0, y0, -h2>>, <<x0, y1, -h2>>, <<x1, y1, -h2>>, <<x1, y0, -h2>>>>,
            NoSkip)
        \o grid(xAllC(p), zB,
            LAMBDA x0, x1, z0, z1 : <<<<x0, -d2, z0>>, <<x1, -d2, z0>>, <<x1, -d2, z1>>, <<x0, -d2, z1>>>>,
            LAMBDA x0, x1, z0, z1 : atMinX(p, x0) \/ atMaxX(p, x1))
        \o grid(xAllC(p), zB,
            LAMBDA x0, x1, z0, z1 : <<<<x1, d2, z0>>, <<x0, d2, z0>>, <<x0, d2, z1>>, <<x1, d2, z1>>>>,
            LAMBDA x0, x1, z0, z1 : atMinX(p, x0) \/ atMaxX(p, x1))
        \o grid(yAllC(p), zB,
            LAMBDA y0, y1, z0, z1 : <<<<w2, y0, z0>>, <<w2, y1, z0>>, <<w2, y1, z1>>, <<w2, y0, z1>>>>,
            LAMBDA y0, y1, z0, z1 : atMinY(p, y0) \/ atMaxY(p, y1))
        \o grid(yAllC(p), zB,
            LAMBDA y0, y1, z0, z1 : <<<<-w2, y1, z0>>, <<-w2, y0, z0>>, <<-w2, y0, z1>>, <<-w2, y1, z1>>>>,
            LAMBDA y0, y1, z0, z1 : atMinY(p, y0) \/ atMaxY(p, y1))
        \o << <<<<-w2 + c, -d2, -h2>>, <<-w2, -d2 + c, -h2>>, <<-w2, -d2 + c, h2>>, <<-w2 + c, -d2, h2>>>>,
              <<<<w2, -d2 + c, -h2>>, <<w2 - c, -d2, -h2>>, <<w2 - c, -d2, h2>>, <<w2, -d2 + c, h2>>>>,
              <<<<w2 - c, d2, -h2>>, <<w2, d2 - c, -h2>>, <<w2, d2 - c, h2>>, <<w2 - c, d2, h2>>>>,
              <<<<-w2, d2 - c, -h2>>, <<-w2 + c, d2, -h2>>, <<-w2 + c, d2, h2>>, <<-w2, d2 - c, h2>>>> >>

boxOuterPlain(p) ==
    LET w2 == boxW2(p)
        d2 == boxD2(p)
        h2 == boxH2(p)
        zB == <<-h2, h2>>
    IN  grid(xAll(p), yAll(p),
            LAMBDA x0, x1, y0, y1 :
                <<<<x0, y0, -h2>>, <<x0, y1, -h2>>, <<x1, y1, -h2>>, <<x1, y0, -h2>>>>,
            NoSkip)
        \o grid(xAll(p), zB,
            LAMBDA x0, x1, z0, z1 : <<<<x0, -d2, z0>>, <<x1, -d2, z0>>, <<x1, -d2, z1>>, <<x0, -d2, z1>>>>,
            NoSkip)
        \o grid(xAll(p), zB,
            LAMBDA x0, x1, z0, z1 : <<<<x1, d2, z0>>, <<x0, d2, z0>>, <<x0, d2, z1>>, <<x1, d2, z1>>>>,
            NoSkip)
        \o grid(yAll(p), zB,
            LAMBDA y0, y1, z0, z1 : <<<<w2, y0, z0>>, <<w2, y1, z0>>, <<w2, y1, z1>>, <<w2, y0, z1>>>>,
            NoSkip)
        \o grid(yAll(p), zB,
            LAMBDA y0, y1, z0, z1 : <<<<-w2, y1, z0>>, <<-w2, y0, z0>>, <<-w2, y0, z1>>, <<-w2, y1, z1>>>>,
            NoSkip)

boxInnerFloor(p) ==
    LET fl == boxFl(p)
    IN  grid(xIn(p), yIn(p),
            LAMBDA x0, x1, y0, y1 : <<<<x0, y0, fl>>, <<x1, y0, fl>>, <<x1, y1, fl>>, <<x0, y1, fl>>>>,
            LAMBDA x0, x1, y0, y1 : isXDiv(p, x0, x1) \/ isYDiv(p, y0, y1))

boxInnerWalls(p) ==
    LET fl  == boxFl(p)
        h2  == boxH2(p)
        iw2 == boxIw2(p)
        id2 == boxId2(p)
        zB  == <<fl, h2>>
    IN  grid(xIn(p), zB,
            LAMBDA x0, x1, z0, z1 : <<<<x1, -id2, z0>>, <<x0, -id2, z0>>, <<x0, -id2, z1>>, <<x1, -id2, z1>>>>,
            LAMBDA x0, x1, z0, z1 : isXDiv(p, x0, x1))
        \o grid(xIn(p), zB,
            LAMBDA x0, x1, z0, z1 : <<<<x0, id2, z0>>, <<x1, id2, z0>>, <<x1, id2, z1>>, <<x0, id2, z1>>>>,
            LAMBDA x0, x1, z0, z1 : isXDiv(p, x0, x1))
        \o grid(yIn(p), zB,
            LAMBDA y0, y1, z0, z1 : <<<<-iw2, y0, z0>>, <<-iw2, y1, z0>>, <<-iw2, y1, z1>>, <<-iw2, y0, z1>>>>,
            LAMBDA y0, y1, z0, z1 : isYDiv(p, y0, y1))
        \o grid(yIn(p), zB,
            LAMBDA y0, y1, z0, z1 : <<<<iw2, y1, z0>>, <<iw2, y0, z0>>, <<iw2, y0, z1>>, <<iw2, y1, z1>>>>,
            LAMBDA y0, y1, z0, z1 : isYDiv(p, y0, y1))

\* Skip cavity openings (inside inner area, not on a divider)
boxTopSkip_never(p, x0, x1, y0, y1) == FALSE
boxTopSkip(p, x0, x1, y0, y1) ==
    LET inX == x0 >= -boxIw2(p) - EPS /\ x1 <= boxIw2(p) + EPS
        inY == y0 >= -boxId2(p) - EPS /\ y1 <= boxId2(p) + EPS
    IN  inX /\ inY /\ ~isXDiv(p, x0, x1) /\ ~isYDiv(p, y0, y1)

boxTop(p) ==
    LET h2 == boxH2(p)
    IN  IF boxC(p) > 0
        THEN cornerGrid(xAllC(p), yAllC(p),
                LAMBDA x0, x1, y0, y1 : <<<<x1, y0, h2>>, <<x1, y1, h2>>, <<x0, y1, h2>>>>,
                LAMBDA x0, x1, y0, y1 : <<<<x0, y0, h2>>, <<x0, y1, h2>>, <<x1, y1, h2>>>>,
                LAMBDA x0, x1, y0, y1 : <<<<x0, y0, h2>>, <<x1, y0, h2>>, <<x1, y1, h2>>>>,
                LAMBDA x0, x1, y0, y1 : <<<<x0, y0, h2>>, <<x1, y0, h2>>, <<x0, y1, h2>>>>,
                LAMBDA x0, x1, y0, y1 :
                    <<<<x0, y0, h2>>, <<x1, y0, h2>>, <<x1, y1, h2>>, <<x0, y1, h2>>>>,
                LAMBDA x0, x1, y0, y1 : boxTopSkip(p, x0, x1, y0, y1))
        ELSE grid(xAll(p), yAll(p),
                LAMBDA x0, x1, y0, y1 :
                    <<<<x0, y0, h2>>, <<x1, y0, h2>>, <<x1, y1, h2>>, <<x0, y1, h2>>>>,
                LAMBDA x0, x1, y0, y1 : boxTopSkip(p, x0, x1, y0, y1))

boxXDividerFaces(p) ==
    LET fl == boxFl(p)
        zB == <<fl, boxH2(p)>>
        ds == xDivs(p)
    IN  Flatten([k \in 1..Len(ds) |->
            LET xl == ds[k] - p.wallThickness \div 2
                xr == ds[k] + p.wallThickness \div 2
            IN  grid(yIn(p), zB,
                    LAMBDA y0, y1, z0, z1 : <<<<xl, y1, z0>>, <<xl, y0, z0>>, <<xl, y0, z1>>, <<xl, y1, z1>>>>,
                    LAMBDA y0, y1, z0, z1 : isYDiv(p, y0, y1))
                \o grid(yIn(p), zB,
                    LAMBDA y0, y1, z0, z1 : <<<<xr, y0, z0>>, <<xr, y1, z0>>, <<xr, y1, z1>>, <<xr, y0, z1>>>>,
                    LAMBDA y0, y1, z0, z1 : isYDiv(p, y0, y1))])

boxYDividerFaces(p) ==
    LET fl == boxFl(p)
        zB == <<fl, boxH2(p)>>
        ds == yDivs(p)
    IN  Flatten([k \in 1..Len(ds) |->
            LET yf == ds[k] - p.wallThickness \div 2
                yb == ds[k] + p.wallThickness \div 2
            IN  grid(xIn(p), zB,
                    LAMBDA x0, x1, z0, z1 : <<<<x0, yf, z0>>, <<x1, yf, z0>>, <<x1, yf, z1>>, <<x0, yf, z1>>>>,
                    LAMBDA x0, x1, z0, z1 : isXDiv(p, x0, x1))
                \o grid(xIn(p), zB,
                    LAMBDA x0, x1, z0, z1 : <<<<x1, yb, z0>>, <<x0, yb, z0>>, <<x0, yb, z1>>, <<x1, yb, z1>>>>,
                    LAMBDA x0, x1, z0, z1 : isXDiv(p, x0, x1))])

boxPolygons(p) ==
    (IF boxC(p) > 0 THEN boxOuterChamfered(p) ELSE boxOuterPlain(p))
    \o boxInnerFloor(p)
    \o boxInnerWalls(p)
    \o boxTop(p)
    \o boxXDividerFaces(p)
    \o boxYDividerFaces(p)

\* return { polygons: polys }
generateBox(p) == [polygons |-> boxPolygons(p)]

-----------------------------------------------------------------------------
(* Mesh predicates                                                         *)

\* The directed edges of a polygon, in winding order (last vertex back to first).
PolyEdges(poly) ==
    [k \in 1..Len(poly) |-> <<poly[k], poly[(k % Len(poly)) + 1]>>]

\* Every edge is shared by exactly two polygons that traverse it in opposite
\* directions: no directed edge occurs twice, none is a single point, and the
\* reverse of every directed edge occurs.
IsClosedMesh(polys) ==
    LET idx == UNION {{k} \X (1..Len(polys[k])) : k \in 1..Len(polys)}
        S   == {PolyEdges(polys[ki[1]])[ki[2]] : ki \in idx}
    IN  /\ Cardinality(S) = Cardinality(idx)
        /\ \A e \in S : e[1] # e[2] /\ <<e[2], e[1]>> \in S

-----------------------------------------------------------------------------
(* SpecBox: generateBox applied to a bounded set of Parameter Records      *)

MaxDivX == 2
MaxDivZ == 1

BoxWidths == {10 * MM, 20 * MM}
BoxDepths == {10 * MM, 16 * MM}
BoxHeights == {10 * MM}
BoxWalls == {1 * MM, 2 * MM}
BoxChamfers == {0, MM \div 2, 2 * MM}
DivPercents == {25, 50, 80}

SeqsUpTo(S, n) == UNION {[1..k -> S] : k \in 0..n}

\* Records without dividers, over every size, wall and chamfer
BoxPlainSpace ==
    {[DEFAULTS EXCEPT !.width = w, !.depth = d, !.height = h, !.wallThickness = wt,
                      !.chamferSize = ch] :
        w \in BoxWidths, d \in BoxDepths, h \in BoxHeights, wt \in BoxWalls,
        ch \in BoxChamfers}

\* Records with dividers listed in any order, with and without a chamfer
BoxDivSpace ==
    {[DEFAULTS EXCEPT !.width = 20 * MM, !.depth = d, !.height = h, !.wallThickness = wt,
                      !.chamferSize = ch, !.divisionsX = dx, !.divisionsZ = dz] :
        d \in BoxDepths, h \in BoxHeights, wt \in BoxWalls, ch \in {0, MM \div 2},
        dx \in SeqsUpTo(DivPercents, MaxDivX), dz \in SeqsUpTo(DivPercents, MaxDivZ)}

\* The default 80 x 60 x 40 box with 2 mm walls, plain and with one divider
BoxExampleSpace == {[DEFAULTS EXCEPT !.divisionsX = dx] : dx \in {<<>>, <<50>>}}

\* Dividers next to the inner walls of a 20 mm box: 1 %, 2 % and 99 % put the
\* band across the inner wall line, 3 % and 97 % keep it inside
BoxEdgeSpace ==
    {[DEFAULTS EXCEPT !.width = 20 * MM, !.depth = 16 * MM, !.height = 10 * MM,
                      !.wallThickness = 1 * MM, !.chamferSize = ch,
                      !.divisionsX = dx, !.divisionsZ = dz] :
        ch \in {0, MM \div 2}, dx \in {<<1>>, <<97, 3>>, <<99, 2>>}, dz \in {<<>>, <<99>>}}

BoxParamSpace == BoxPlainSpace \cup BoxDivSpace \cup BoxExampleSpace \cup BoxEdgeSpace

InitBox ==
    /\ params \in BoxParamSpace
    /\ boxPolys = NotRun
    /\ flatLid = NotRun
    /\ csgLid = NotRun
    /\ TextUnused /\ AppUnused /\ ExportUnused /\ CallsUnused

GenerateBox ==
    /\ boxPolys = NotRun
    /\ boxPolys' = generateBox(params)
    /\ UNCHANGED <<params, flatLid, csgLid, textVars, appVars, exportVars, callVars>>

NextBox == GenerateBox

SpecBox == InitBox /\ [][NextBox]_vars

-----------------------------------------------------------------------------
(* Claims about generateBox                                                *)

BoxValid(p) ==
    /\ p.width > 2 * p.wallThickness
    /\ p.depth > 2 * p.wallThickness
    /\ p.height > p.wallThickness

\* The divider bands [pos - wt/2, pos + wt/2] are pairwise disjoint and lie
\* strictly inside the inner extent [-half, half].
BandsDisjointInside(ds, wt, half) ==
    /\ \A k \in 1..Len(ds) : -half < ds[k] - wt \div 2 /\ ds[k] + wt \div 2 < half
    /\ \A k \in 1..Len(ds) : \A m \in 1..Len(ds) : k # m => Abs(ds[k] - ds[m]) > wt

\* C1: for every Parameter Record with no divisions, W > 2*wt, D > 2*wt,
\* H > wt and any chamferSize >= 0, the mesh generateBox returns is closed:
\* every edge is shared by exactly two polygons that traverse it in opposite
\* directions.
C1_ClosedNoDivisions ==
    (/\ boxPolys # NotRun
     /\ params.divisionsX = <<>> /\ params.divisionsZ = <<>>
     /\ BoxValid(params) /\ params.chamferSize >= 0)
    => IsClosedMesh(boxPolys.polygons)

\* C2: with chamfer 0, W > 2*wt, D > 2*wt, H > wt and dividers whose bands are
\* pairwise disjoint and strictly inside the inner footprint, the mesh
\* generateBox returns is closed, crossings of X and Z dividers included.
C2_ClosedWithDividers ==
    (/\ boxPolys # NotRun
     /\ boxC(params) = 0
     /\ BoxValid(params)
     /\ BandsDisjointInside(xDivs(params), params.wallThickness, boxIw2(params))
     /\ BandsDisjointInside(yDivs(params), params.wallThickness, boxId2(params)))
    => IsClosedMesh(boxPolys.polygons)

\* An X divider crosses a Z divider in a generated, unchamfered box.
C2_Witness ==
    /\ boxPolys # NotRun
    /\ boxC(params) = 0
    /\ BoxValid(params)
    /\ Len(params.divisionsX) = 2 /\ Len(params.divisionsZ) = 1
    /\ params.divisionsX[1] > params.divisionsX[2]
    /\ BandsDisjointInside(xDivs(params), params.wallThickness, boxIw2(params))
    /\ BandsDisjointInside(yDivs(params), params.wallThickness, boxId2(params))
    /\ IsClosedMesh(boxPolys.polygons)

-----------------------------------------------------------------------------
(* generateFlatLid                                                         *)

CavityMin == 10

\* [...set].sort((a, b) => a - b)
SortedSeq(S) ==
    [k \in 1..Cardinality(S) |-> CHOOSE x \in S : Cardinality({y \in S : y < x}) = k - 1]

flatLh_raw(p) == p.lidHeight
flatLh(p) == Min2(p.lidHeight, p.height - p.wallThickness)

flatC(p) == Min4(p.chamferSize, p.wallThickness, p.width \div 4, p.depth \div 4)

flatLow2(p) == p.width \div 2 - p.wallThickness - p.lidTolerance
flatLod2(p) == p.depth \div 2 - p.wallThickness - p.lidTolerance
flatLiw2(p) == flatLow2(p) - p.wallThickness
flatLid2(p) == flatLod2(p) - p.wallThickness

flatSw(p) == p.wallThickness + p.lidTolerance * 2

xNotches(p) == DivPositions(p.divisionsX, p.width - 2 * p.wallThickness)
yNotches(p) == DivPositions(p.divisionsZ, p.depth - 2 * p.wallThickness)

lidBreaks(half, lo2, li2, c, notches, sw) ==
    SortedSeq({-half, -lo2, lo2, half}
        \cup (IF c > 0 THEN {-half + c, half - c} ELSE {})
        \cup (IF li2 > CavityMin THEN {-li2, li2} ELSE {})
        \cup UNION {{notches[k] - sw \div 2, notches[k] + sw \div 2} : k \in 1..Len(notches)})

xB(p) == lidBreaks(p.width \div 2, flatLow2(p), flatLiw2(p), flatC(p), xNotches(p), flatSw(p))
yB(p) == lidBreaks(p.depth \div 2, flatLod2(p), flatLid2(p), flatC(p), yNotches(p), flatSw(p))

inNotch(notches, m, sw) ==
    \E k \in 1..Len(notches) :
        m > notches[k] - sw \div 2 + EPS /\ m < notches[k] + sw \div 2 - EPS

\* Top height of the cell whose midpoint is (mx, my)
topAt(p, mx, my) ==
    IF Abs(mx) > flatLow2(p) + EPS \/ Abs(my) > flatLod2(p) + EPS THEN 0
    ELSE IF /\ flatLiw2(p) > CavityMin /\ flatLid2(p) > CavityMin
            /\ Abs(mx) < flatLiw2(p) - EPS /\ Abs(my) < flatLid2(p) - EPS THEN 0
    ELSE IF p.includeHinge /\ my > 0 THEN 0
    ELSE IF inNotch(xNotches(p), mx, flatSw(p)) THEN 0
    ELSE IF inNotch(yNotches(p), my, flatSw(p)) THEN 0
    ELSE flatLh(p)

\* cellTop(i, j), cells numbered from 1
cellTop(p, X, Y, i, j) ==
    topAt(p, (X[i] + X[i + 1]) \div 2, (Y[j] + Y[j + 1]) \div 2)

\* tops[i][j] for i in 1..nx, j in 1..ny
flatTops(p, X, Y) ==
    [i \in 1..(Len(X) - 1) |-> [j \in 1..(Len(Y) - 1) |-> cellTop(p, X, Y, i, j)]]

isChamferCorner(c, nx, ny, i, j) ==
    c > 0 /\ (i = 1 \/ i = nx) /\ (j = 1 \/ j = ny)

\* Cells in i-major, j-minor order, each mapped to a (possibly empty) list of polygons
cellLoop(nx, ny, f(_, _)) ==
    Flatten([k \in 1..(nx * ny) |-> f((k - 1) \div ny + 1, ((k - 1) % ny) + 1)])

flatBottom(X, Y, nx, ny, c, wt) ==
    cellLoop(nx, ny, LAMBDA i, j :
        IF isChamferCorner(c, nx, ny, i, j)
        THEN IF i = 1 /\ j = 1
             THEN << <<<<X[2], Y[1], -wt>>, <<X[1], Y[2], -wt>>, <<X[2], Y[2], -wt>>>> >>
             ELSE IF i = nx /\ j = 1
             THEN << <<<<X[nx], Y[1], -wt>>, <<X[nx], Y[2], -wt>>, <<X[nx + 1], Y[2], -wt>>>> >>
             ELSE IF i = 1 /\ j = ny
             THEN << <<<<X[1], Y[ny], -wt>>, <<X[2], Y[ny], -wt>>, <<X[2], Y[ny + 1], -wt>>>> >>
             ELSE << <<<<X[nx], Y[ny], -wt>>, <<X[nx + 1], Y[ny], -wt>>, <<X[nx], Y[ny + 1], -wt>>>> >>
        ELSE << <<<<X[i], Y[j], -wt>>, <<X[i], Y[j + 1], -wt>>,
                  <<X[i + 1], Y[j + 1], -wt>>, <<X[i + 1], Y[j], -wt>>>> >>)

flatTopFaces(X, Y, nx, ny, c, tops) ==
    cellLoop(nx, ny, LAMBDA i, j :
        LET z == tops[i][j]
        IN  IF isChamferCorner(c, nx, ny, i, j)
            THEN IF i = 1 /\ j = 1
                 THEN << <<<<X[2], Y[1], z>>, <<X[2], Y[2], z>>, <<X[1], Y[2], z>>>> >>
                 ELSE IF i = nx /\ j = 1
                 THEN << <<<<X[nx], Y[1], z>>, <<X[nx + 1], Y[2], z>>, <<X[nx], Y[2], z>>>> >>
                 ELSE IF i = 1 /\ j = ny
                 THEN << <<<<X[1], Y[ny], z>>, <<X[2], Y[ny], z>>, <<X[2], Y[ny + 1], z>>>> >>
                 ELSE << <<<<X[nx], Y[ny], z>>, <<X[nx], Y[ny + 1], z>>, <<X[nx + 1], Y[ny], z>>>> >>
            ELSE << <<<<X[i], Y[j], z>>, <<X[i + 1], Y[j], z>>,
                      <<X[i + 1], Y[j + 1], z>>, <<X[i], Y[j + 1], z>>>> >>)

\* Outer boundary walls over cells lo..hi of each side
flatOuterWalls(X, Y, nx, ny, w2, d2, wt, tops, jLo, jHi, iLo, iHi) ==
    [k \in 1..Max2(jHi - jLo + 1, 0) |->
        LET j == jLo + k - 1
        IN  <<<<-w2, Y[j + 1], -wt>>, <<-w2, Y[j], -wt>>,
              <<-w2, Y[j], tops[1][j]>>, <<-w2, Y[j + 1], tops[1][j]>>>>]
    \o [k \in 1..Max2(jHi - jLo + 1, 0) |->
        LET j == jLo + k - 1
        IN  <<<<w2, Y[j], -wt>>, <<w2, Y[j + 1], -wt>>,
              <<w2, Y[j + 1], tops[nx][j]>>, <<w2, Y[j], tops[nx][j]>>>>]
    \o [k \in 1..Max2(iHi - iLo + 1, 0) |->
        LET i == iLo + k - 1
        IN  <<<<X[i], -d2, -wt>>, <<X[i + 1], -d2, -wt>>,
              <<X[i + 1], -d2, tops[i][1]>>, <<X[i], -d2, tops[i][1]>>>>]
    \o [k \in 1..Max2(iHi - iLo + 1, 0) |->
        LET i == iLo + k - 1
        IN  <<<<X[i + 1], d2, -wt>>, <<X[i], d2, -wt>>,
              <<X[i], d2, tops[i][ny]>>, <<X[i + 1], d2, tops[i][ny]>>>>]

flatChamferStrips(w2, d2, c, wt) ==
    LET ct == 0
    IN  << <<<<-w2 + c, -d2, -wt>>, <<-w2, -d2 + c, -wt>>, <<-w2, -d2 + c, ct>>, <<-w2 + c, -d2, ct>>>>,
           <<<<w2, -d2 + c, -wt>>, <<w2 - c, -d2, -wt>>, <<w2 - c, -d2, ct>>, <<w2, -d2 + c, ct>>>>,
           <<<<w2 - c, d2, -wt>>, <<w2, d2 - c, -wt>>, <<w2, d2 - c, ct>>, <<w2 - c, d2, ct>>>>,
           <<<<-w2, d2 - c, -wt>>, <<-w2 + c, d2, -wt>>, <<-w2 + c, d2, ct>>, <<-w2, d2 - c, ct>>>> >>

flatStepsX(X, Y, nx, ny, c, tops) ==
    cellLoop(nx - 1, ny, LAMBDA i, j :
        LET tL == tops[i][j]
            tR == tops[i + 1][j]
            x  == X[i + 1]
            lo == Min2(tL, tR)
            hi == Max2(tL, tR)
        IN  IF isChamferCorner(c, nx, ny, i, j) \/ isChamferCorner(c, nx, ny, i + 1, j) THEN <<>>
            ELSE IF Abs(tL - tR) < EPS THEN <<>>
            ELSE IF tL > tR
            THEN << <<<<x, Y[j], lo>>, <<x, Y[j + 1], lo>>, <<x, Y[j + 1], hi>>, <<x, Y[j], hi>>>> >>
            ELSE << <<<<x, Y[j + 1], lo>>, <<x, Y[j], lo>>, <<x, Y[j], hi>>, <<x, Y[j + 1], hi>>>> >>)

flatStepsY(X, Y, nx, ny, c, tops) ==
    cellLoop(nx, ny - 1, LAMBDA i, j :
        LET tF == tops[i][j]
            tB == tops[i][j + 1]
            y  == Y[j + 1]
            lo == Min2(tF, tB)
            hi == Max2(tF, tB)
        IN  IF isChamferCorner(c, nx, ny, i, j) \/ isChamferCorner(c, nx, ny, i, j + 1) THEN <<>>
            ELSE IF Abs(tF - tB) < EPS THEN <<>>
            ELSE IF tF > tB
            THEN << <<<<X[i + 1], y, lo>>, <<X[i], y, lo>>, <<X[i], y, hi>>, <<X[i + 1], y, hi>>>> >>
            ELSE << <<<<X[i], y, lo>>, <<X[i + 1], y, lo>>, <<X[i + 1], y, hi>>, <<X[i], y, hi>>>> >>)

flatLidPolygons(p) ==
    LET X    == xB(p)
        Y    == yB(p)
        nx   == Len(X) - 1
        ny   == Len(Y) - 1
        c    == flatC(p)
        wt   == p.wallThickness
        w2   == p.width \div 2
        d2   == p.depth \div 2
        tops == flatTops(p, X, Y)
    IN  flatBottom(X, Y, nx, ny, c, wt)
        \o flatTopFaces(X, Y, nx, ny, c, tops)
        \o (IF c > 0
            THEN flatOuterWalls(X, Y, nx, ny, w2, d2, wt, tops, 2, ny - 1, 2, nx - 1)
                 \o flatChamferStrips(w2, d2, c, wt)
            ELSE flatOuterWalls(X, Y, nx, ny, w2, d2, wt, tops, 1, ny, 1, nx))
        \o flatStepsX(X, Y, nx, ny, c, tops)
        \o flatStepsY(X, Y, nx, ny, c, tops)

\* return { polygons: polys }
generateFlatLid(p) == [polygons |-> flatLidPolygons(p)]

-----------------------------------------------------------------------------
(* Boolean solids of the CSG path.  A solid is an expression tree over     *)
(* cuboid / extruded triangle, combined by translate, mirrorX, subtract    *)
(* and union; it is realised by point membership.  Sample points are       *)
(* always taken strictly between the boundary planes of every primitive.   *)

Throws == [op |-> "throws"]

Cuboid(size) == [op |-> "cuboid", size |-> size]
Prism(points, h) == [op |-> "prism", points |-> points, height |-> h]
Translate(v, s) == [op |-> "translate", by |-> v, of |-> s]
MirrorX(s) == [op |-> "mirrorX", of |-> s]
Subtract(a, b) == [op |-> "subtract", a |-> a, b |-> b]
Union(a, b) == [op |-> "union", a |-> a, b |-> b]

\* cuboid() throws "size values must be positive" on a negative size; a zero
\* size gives an empty solid (no point is strictly inside it).
cuboidRejects(size) == \E k \in 1..3 : size[k] < 0

Cross2(a, b, q) == (b[1] - a[1]) * (q[2] - a[2]) - (b[2] - a[2]) * (q[1] - a[1])

RECURSIVE Inside(_, _)
Inside(s, q) ==
    CASE s.op = "cuboid" ->
            \A k \in 1..3 : 2 * Abs(q[k]) < s.size[k]
      [] s.op = "prism" ->
            /\ 0 < q[3] /\ q[3] < s.height
            /\ Cross2(s.points[1], s.points[2], q) > 0
            /\ Cross2(s.points[2], s.points[3], q) > 0
            /\ Cross2(s.points[3], s.points[1], q) > 0
      [] s.op = "translate" ->
            Inside(s.of, <<q[1] - s.by[1], q[2] - s.by[2], q[3] - s.by[3]>>)
      [] s.op = "mirrorX" -> Inside(s.of, <<-q[1], q[2], q[3]>>)
      [] s.op = "subtract" -> Inside(s.a, q) /\ ~Inside(s.b, q)
      [] s.op = "union" -> Inside(s.a, q) \/ Inside(s.b, q)

RECURSIVE SubtractAll(_, _)
SubtractAll(s, cuts) ==
    IF cuts = <<>> THEN s ELSE SubtractAll(Subtract(s, Head(cuts)), Tail(cuts))

-----------------------------------------------------------------------------
(* generateLidCSG                                                          *)

csgLidHeight(p) == Min2(p.lidHeight, p.height - p.wallThickness)

csgC(p) == Min4(p.chamferSize, p.wallThickness, p.width \div 4, p.depth \div 4)

lipOuterWidth(p) == p.width - p.wallThickness * 2 - p.lidTolerance * 2
lipOuterDepth(p) == p.depth - p.wallThickness * 2 - p.lidTolerance * 2
lipInnerWidth(p) == lipOuterWidth(p) - p.wallThickness * 2
lipInnerDepth(p) == lipOuterDepth(p) - p.wallThickness * 2
fullHeight(p) == p.wallThickness + csgLidHeight(p)
lipCenterZ(p) == fullHeight(p) \div 2 - csgLidHeight(p) \div 2

csgBlockSize(p) == <<p.width, p.depth, fullHeight(p)>>
csgStepOuterSize(p) == <<p.width + MM, p.depth + MM, csgLidHeight(p) + 200>>
csgStepInnerSize(p) == <<lipOuterWidth(p), lipOuterDepth(p), csgLidHeight(p) + 400>>
csgLipHollowSize(p) == <<lipInnerWidth(p), lipInnerDepth(p), csgLidHeight(p) + 200>>

backHalfDepth(p) == lipOuterDepth(p) \div 2 + 100
csgBackClearSize(p) == <<lipOuterWidth(p) + 200, backHalfDepth(p), csgLidHeight(p) + 400>>

csgSlotXSize(p) ==
    <<p.wallThickness + p.lidTolerance * 2, lipOuterDepth(p) + 200, csgLidHeight(p) + 200>>
csgSlotZSize(p) ==
    <<lipOuterWidth(p) + 200, p.wallThickness + p.lidTolerance * 2, csgLidHeight(p) + 200>>

csgPos(pct, inner) == -(inner \div 2) + (pct * inner) \div 100

\* The cuboid sizes in the order generateLidCSG constructs them
csgCuboidSizes(p) ==
    <<csgBlockSize(p), csgStepOuterSize(p), csgStepInnerSize(p), csgLipHollowSize(p)>>
    \o (IF p.includeHinge THEN <<csgBackClearSize(p)>> ELSE <<>>)
    \o [k \in 1..Len(p.divisionsX) |-> csgSlotXSize(p)]
    \o [k \in 1..Len(p.divisionsZ) |-> csgSlotZSize(p)]

csgCuts(p) ==
    LET z == lipCenterZ(p)
    IN  << Translate(<<0, 0, z>>,
               Subtract(Cuboid(csgStepOuterSize(p)), Cuboid(csgStepInnerSize(p)))),
           Translate(<<0, 0, z>>, Cuboid(csgLipHollowSize(p))) >>
        \o (IF p.includeHinge
            THEN << Translate(<<0, backHalfDepth(p) \div 2, z>>, Cuboid(csgBackClearSize(p))) >>
            ELSE <<>>)
        \o [k \in 1..Len(p.divisionsX) |->
               Translate(<<csgPos(p.divisionsX[k], p.width - p.wallThickness * 2), 0, z>>,
                         Cuboid(csgSlotXSize(p)))]
        \o [k \in 1..Len(p.divisionsZ) |->
               Translate(<<0, csgPos(p.divisionsZ[k], p.depth - p.wallThickness * 2), z>>,
                         Cuboid(csgSlotZSize(p)))]

csgCornerTris(p) ==
    LET w2 == p.width \div 2
        d2 == p.depth \div 2
        c  == csgC(p)
    IN  << <<<<-w2, -d2>>, <<-w2 + c, -d2>>, <<-w2, -d2 + c>>>>,
           <<<<w2, -d2>>, <<w2, -d2 + c>>, <<w2 - c, -d2>>>>,
           <<<<w2, d2>>, <<w2 - c, d2>>, <<w2, d2 - c>>>>,
           <<<<-w2, d2>>, <<-w2, d2 - c>>, <<-w2 + c, d2>>>> >>

csgChamferCuts(p) ==
    IF csgC(p) > 0
    THEN [k \in 1..4 |->
            Translate(<<0, 0, -((fullHeight(p) + 2 * MM) \div 2)>>,
                      Prism(csgCornerTris(p)[k], fullHeight(p) + 2 * MM))]
    ELSE <<>>

\* The lid after step 5, before the text is applied and before the final translate
csgLidBeforeText(p) ==
    SubtractAll(Cuboid(csgBlockSize(p)), csgCuts(p) \o csgChamferCuts(p))

csgApplyText(p, lid, textGeometry) ==
    LET mirrored  == MirrorX(textGeometry)
        capBottom == -(fullHeight(p) \div 2)
    IN  IF p.lidTextStyle = "engraved"
        THEN Subtract(lid, Translate(<<0, 0, capBottom>>, mirrored))
        ELSE Union(lid, Translate(<<0, 0, capBottom - p.lidTextDepth>>, mirrored))

csgFinalShift(p) == (csgLidHeight(p) - p.wallThickness) \div 2

generateLidCSG(p, textGeometry) ==
    IF \E k \in 1..Len(csgCuboidSizes(p)) : cuboidRejects(csgCuboidSizes(p)[k])
    THEN Throws
    ELSE Translate(<<0, 0, csgFinalShift(p)>>,
                   csgApplyText(p, csgLidBeforeText(p), textGeometry))

\* if (textGeometry) ...: null and undefined are falsy, a solid is truthy
generateLid_alwaysFlat(p, textGeometry) == generateFlatLid(p)
generateLid(p, textGeometry) ==
    IF textGeometry # Null
    THEN generateLidCSG(p, textGeometry)
    ELSE generateFlatLid(p)

-----------------------------------------------------------------------------
(* SpecLid: the three builders applied to a bounded set of Parameter       *)
(* Records that vary the lid fit, the chamfer and the hinge clearance      *)

MaxLidDivX == 2
MaxLidDivZ == 1

LidWidths == {10 * MM, 20 * MM}
LidDepth == 16 * MM
LidHeight == 10 * MM
LidWalls == {1 * MM, 2 * MM, 3 * MM}
LidLipHeights == {2 * MM, 20 * MM}
LidTolerances == {100, 1000}
LidChamfers == {0, 1 * MM, 3 * MM}
LidDivPercents == {50, 80}

LidBase == [DEFAULTS EXCEPT !.includeLid = TRUE, !.depth = LidDepth, !.height = LidHeight]

\* Records that vary the fit (wall, tolerance, lip height, chamfer), without dividers
LidFitSpace ==
    {[LidBase EXCEPT !.width = w, !.wallThickness = wt, !.lidHeight = lh,
                     !.lidTolerance = tol, !.chamferSize = ch,
                     !.includeHinge = hg, !.lidTextStyle = st] :
        w \in LidWidths, wt \in LidWalls, lh \in LidLipHeights, tol \in LidTolerances,
        ch \in LidChamfers, hg \in BOOLEAN, st \in {"engraved", "embossed"}}

\* Records that vary the dividers, listed in any order
LidDivSpace ==
    {[LidBase EXCEPT !.width = 20 * MM, !.wallThickness = wt, !.lidTolerance = tol,
                     !.chamferSize = ch, !.includeHinge = hg,
                     !.divisionsX = dx, !.divisionsZ = dz] :
        wt \in {1 * MM, 2 * MM}, tol \in LidTolerances, ch \in {0, 1 * MM}, hg \in BOOLEAN,
        dx \in SeqsUpTo(LidDivPercents, MaxLidDivX),
        dz \in SeqsUpTo(LidDivPercents, MaxLidDivZ)}

\* A divider at 1 % or 99 % of a chamfered 20 mm lid: its notch, wider than the
\* divider by the tolerance on each side, ends within the chamfer or beyond
\* the outer edge
LidEdgeSpace ==
    {[LidBase EXCEPT !.width = 20 * MM, !.wallThickness = 1 * MM, !.lidTolerance = tol,
                     !.chamferSize = 1 * MM, !.divisionsX = dx] :
        tol \in LidTolerances, dx \in {<<1>>, <<99>>}}

LidParamSpace == LidFitSpace \cup LidDivSpace \cup LidEdgeSpace

\* One run of the rasterizer: translate([xCenter, yCenter, textDepth / 2],
\* cuboid({ size: [w, h, textDepth] })) with a 2-pixel run on the centre row
TextRun(p) ==
    Translate(<<0, 250, p.lidTextDepth \div 2>>, Cuboid(<<1 * MM, 500, p.lidTextDepth>>))

InitLid ==
    /\ params \in LidParamSpace
    /\ boxPolys = NotRun
    /\ flatLid = NotRun
    /\ csgLid = NotRun
    /\ TextUnused /\ AppUnused /\ ExportUnused /\ CallsUnused

\* The builders run in the order of the App effect: box first, then the lid
GenerateFlatLid ==
    /\ boxPolys # NotRun
    /\ flatLid = NotRun
    /\ flatLid' = generateFlatLid(params)
    /\ UNCHANGED <<params, boxPolys, csgLid, textVars, appVars, exportVars, callVars>>

GenerateLidCSG ==
    /\ flatLid # NotRun
    /\ csgLid = NotRun
    /\ csgLid' = generateLidCSG(params, TextRun(params))
    /\ UNCHANGED <<params, boxPolys, flatLid, textVars, appVars, exportVars, callVars>>

NextLid == GenerateBox \/ GenerateFlatLid \/ GenerateLidCSG

SpecLid == InitLid /\ [][NextLid]_vars

-----------------------------------------------------------------------------
(* Observations on generated lids                                          *)

Delta == 50

SeqSet(q) == {q[k] : k \in 1..Len(q)}

\* Midpoints of consecutive values of a finite set of coordinates
Mids(S) ==
    LET b == SortedSeq(S)
    IN  {(b[k] + b[k + 1]) \div 2 : k \in 1..(Len(b) - 1)}

\* Every x (or y) at which either builder, the chamfer or the text run has a
\* boundary, clipped to the outer footprint
SampleBreaks(half, xb, lo, li, c, positions, sw, textEdges) ==
    {v \in SeqSet(xb)
           \cup {-half, half, -half + c, half - c}
           \cup {-(lo \div 2), lo \div 2, -(li \div 2), li \div 2}
           \cup {-((lo + 200) \div 2), (lo + 200) \div 2}
           \cup UNION {{positions[k] - sw \div 2, positions[k] + sw \div 2} :
                          k \in 1..Len(positions)}
           \cup textEdges :
        -half <= v /\ v <= half}

SampleXs(p) ==
    Mids(SampleBreaks(p.width \div 2, xB(p), p.width - 2 * p.wallThickness - 2 * p.lidTolerance,
                      p.width - 4 * p.wallThickness - 2 * p.lidTolerance,
                      Max2(flatC(p), 0), xNotches(p), flatSw(p), {-500, 500}))
SampleYs(p) ==
    Mids(SampleBreaks(p.depth \div 2, yB(p), p.depth - 2 * p.wallThickness - 2 * p.lidTolerance,
                      p.depth - 4 * p.wallThickness - 2 * p.lidTolerance,
                      Max2(flatC(p), 0), yNotches(p), flatSw(p), {0, 500}))

\* Horizontal faces of a mesh at height z
FacesAt(mesh, z) == {q \in SeqSet(mesh.polygons) : \A k \in 1..Len(q) : q[k][3] = z}

Covers(q, x, y) ==
    /\ \E k \in 1..Len(q) : q[k][1] < x
    /\ \E k \in 1..Len(q) : q[k][1] > x
    /\ \E k \in 1..Len(q) : q[k][2] < y
    /\ \E k \in 1..Len(q) : q[k][2] > y

\* The flat lid has lip material over (x, y): a top face at lip height covers it
FlatLipAt(lipFaces, x, y) == \E q \in lipFaces : Covers(q, x, y)

\* The lip height each Parameter Record asks for
ExpectedLip(p) == Min2(p.lidHeight, p.height - p.wallThickness)

\* The CSG lid has lip material over (x, y): the middle of the lip band is solid
CsgLipAt(solid, p, x, y) == Inside(solid, <<x, y, ExpectedLip(p) \div 2>>)

InChamferCorner(p, x, y) ==
    /\ Abs(x) > p.width \div 2 - Max2(flatC(p), 0)
    /\ Abs(y) > p.depth \div 2 - Max2(flatC(p), 0)

UnderText(x, y) == Abs(x) < 500 /\ 0 < y /\ y < 500

\* Diagonal vertical strips of a mesh (the chamfer faces)
DiagStrips(mesh) ==
    {q \in SeqSet(mesh.polygons) :
        Len(q) = 4 /\ q[1][1] # q[2][1] /\ q[1][2] # q[2][2] /\ q[1][3] = q[2][3]}

RECURSIVE Prisms(_)
Prisms(s) ==
    CASE s.op = "prism" -> {s}
      [] s.op = "cuboid" -> {}
      [] s.op \in {"translate", "mirrorX"} -> Prisms(s.of)
      [] s.op \in {"subtract", "union"} -> Prisms(s.a) \cup Prisms(s.b)

CsgRan == csgLid # NotRun /\ csgLid # Throws

-----------------------------------------------------------------------------
(* Claims about the lid builders                                           *)

\* C3: when includeHinge is set, generateFlatLid clears the entire back half
\* of the lip: every face at lip height lies entirely in Y <= 0, the region
\* the CSG path removes with its back-half block.
C3_HingeClearsBackHalf ==
    /\ (flatLid # NotRun /\ params.includeHinge /\ ExpectedLip(params) > 0)
         => \A q \in FacesAt(flatLid, ExpectedLip(params)) :
                \A k \in 1..Len(q) : q[k][2] <= 0
    /\ (CsgRan /\ params.includeHinge)
         => \A x \in SampleXs(params) : \A y \in SampleYs(params) :
                y > 0 => ~CsgLipAt(csgLid, params, x, y)

\* Without the flat-lid half of the claim: the CSG path clears Y > 0.
C3_CsgOnly ==
    (CsgRan /\ params.includeHinge)
         => \A x \in SampleXs(params) : \A y \in SampleYs(params) :
                y > 0 => ~CsgLipAt(csgLid, params, x, y)

\* The region the claim describes: the ring between the lip outer and inner
\* footprints minus one band of width wt + 2*tol around each divider position.
InExpectedLipRegion(p, x, y) ==
    LET low == p.width - 2 * p.wallThickness - 2 * p.lidTolerance
        lod == p.depth - 2 * p.wallThickness - 2 * p.lidTolerance
        liw == low - 2 * p.wallThickness
        lidp == lod - 2 * p.wallThickness
        sw  == p.wallThickness + 2 * p.lidTolerance
        xs  == {-((p.width - 2 * p.wallThickness) \div 2)
                  + (p.divisionsX[k] * (p.width - 2 * p.wallThickness)) \div 100 :
                    k \in 1..Len(p.divisionsX)}
        ys  == {-((p.depth - 2 * p.wallThickness) \div 2)
                  + (p.divisionsZ[k] * (p.depth - 2 * p.wallThickness)) \div 100 :
                    k \in 1..Len(p.divisionsZ)}
    IN  /\ 2 * Abs(x) < low /\ 2 * Abs(y) < lod
        /\ ~(2 * Abs(x) < liw /\ 2 * Abs(y) < lidp)
        /\ \A xn \in xs : ~(2 * Abs(x - xn) < sw)
        /\ \A yn \in ys : ~(2 * Abs(y - yn) < sw)

\* C4: with includeHinge = false the flat lid and the CSG lid have lip
\* material over the same (x, y) region, the ring minus the divider bands,
\* for every order in which the divisions are listed.
C4_LipRegionsAgree ==
    (flatLid # NotRun /\ csgLid # NotRun /\ ~params.includeHinge)
    => /\ csgLid # Throws
       /\ \A x \in SampleXs(params) : \A y \in SampleYs(params) :
             /\ FlatLipAt(FacesAt(flatLid, ExpectedLip(params)), x, y)
                  <=> InExpectedLipRegion(params, x, y)
             /\ CsgLipAt(csgLid, params, x, y) <=> InExpectedLipRegion(params, x, y)

\* The same comparison on the records for which generateLidCSG returns a solid.
C4_WhenCsgReturns ==
    (flatLid # NotRun /\ CsgRan /\ ~params.includeHinge)
    => \A x \in SampleXs(params) : \A y \in SampleYs(params) :
             /\ FlatLipAt(FacesAt(flatLid, ExpectedLip(params)), x, y)
                  <=> InExpectedLipRegion(params, x, y)
             /\ CsgLipAt(csgLid, params, x, y) <=> InExpectedLipRegion(params, x, y)

\* C5: after its final translate the CSG lid has its cap bottom at
\* Z = -wallThickness, its cap top (wing and hollow surface) at Z = 0 and its
\* lip from Z = 0 to Z = +lidHeight (the clamped lip height).
C5_CsgZConvention ==
    CsgRan =>
        \A x \in SampleXs(params) : \A y \in SampleYs(params) :
            (~InChamferCorner(params, x, y) /\ ~UnderText(x, y)) =>
                /\ Inside(csgLid, <<x, y, -params.wallThickness + Delta>>)
                /\ ~Inside(csgLid, <<x, y, -params.wallThickness - Delta>>)
                /\ Inside(csgLid, <<x, y, -Delta>>)
                /\ ~Inside(csgLid, <<x, y, ExpectedLip(params) + Delta>>)
                /\ Inside(csgLid, <<x, y, Delta>>)
                     => Inside(csgLid, <<x, y, ExpectedLip(params) - Delta>>)

\* C6: for wallThickness in [1,10] and lidTolerance in [0.1,1] the lip outer
\* footprint is (W - 2*wt - 2*tol) by (D - 2*wt - 2*tol) and the lip's hollow
\* interior (lip outer minus 2*wt per axis) never has negative extent, in
\* both lid builders.
C6_LipFit ==
    (flatLid # NotRun /\ csgLid # NotRun) =>
        LET low == params.width - 2 * params.wallThickness - 2 * params.lidTolerance
            lod == params.depth - 2 * params.wallThickness - 2 * params.lidTolerance
        IN  /\ 2 * flatLow2(params) = low /\ 2 * flatLod2(params) = lod
            /\ csgStepInnerSize(params)[1] = low /\ csgStepInnerSize(params)[2] = lod
            /\ flatLiw2(params) >= 0 /\ flatLid2(params) >= 0
            /\ csgLipHollowSize(params)[1] >= 0 /\ csgLipHollowSize(params)[2] >= 0


\* The effective chamfer and lip height each Parameter Record asks for
ExpectedChamfer(p) == Min4(p.chamferSize, p.wallThickness, p.width \div 4, p.depth \div 4)

\* The two legs of a diagonal strip, and of a corner prism's triangle
StripLegs(q) == <<Abs(q[1][1] - q[2][1]), Abs(q[1][2] - q[2][2])>>
PrismLegs(s) ==
    <<Max2(Abs(s.points[1][1] - s.points[2][1]), Abs(s.points[1][1] - s.points[3][1])),
      Max2(Abs(s.points[1][2] - s.points[2][2]), Abs(s.points[1][2] - s.points[3][2]))>>

MeshChamferIs(mesh, c) ==
    /\ (DiagStrips(mesh) # {}) <=> (c > 0)
    /\ \A q \in DiagStrips(mesh) : StripLegs(q) = <<c, c>>

SolidChamferIs(solid, c) ==
    /\ (Prisms(solid) # {}) <=> (c > 0)
    /\ \A s \in Prisms(solid) : PrismLegs(s) = <<c, c>>

MeshTop(mesh) ==
    LET zs == UNION {{q[k][3] : k \in 1..Len(q)} : q \in SeqSet(mesh.polygons)} IN
    CHOOSE z \in zs : \A z2 \in zs : z2 <= z

\* The solid has material just below height z somewhere and none just above it
SolidTopIs(solid, p, z) ==
    /\ \E x \in SampleXs(p) : \E y \in SampleYs(p) : Inside(solid, <<x, y, z - Delta>>)
    /\ \A x \in SampleXs(p) : \A y \in SampleYs(p) : ~Inside(solid, <<x, y, z + Delta>>)

\* C10: both lid builders use the lip height min(lidHeight, height -
\* wallThickness): the lip of the flat lid and of the CSG lid is never taller
\* than height - wallThickness, and the two builders use the same value.
C10_SameLipHeight ==
    /\ flatLid # NotRun =>
          /\ MeshTop(flatLid) = ExpectedLip(params)
          /\ MeshTop(flatLid) <= params.height - params.wallThickness
    /\ CsgRan =>
          /\ SolidTopIs(csgLid, params, ExpectedLip(params))
          /\ flatLh(params) = csgLidHeight(params)

C10_Witness ==
    /\ flatLid # NotRun /\ CsgRan
    /\ params.lidHeight > params.height - params.wallThickness
    /\ MeshTop(flatLid) = params.height - params.wallThickness

-----------------------------------------------------------------------------
(* textToJscadGeometry: the text rasterizer                                *)

PIXELS_PER_MM == 2
DarkBelow == 128

\* String.prototype.trim: strips white space from both ends
WhiteSpace == {" ", "\n"}

RECURSIVE TrimStart(_)
TrimStart(t) == IF Len(t) > 0 /\ Head(t) \in WhiteSpace THEN TrimStart(Tail(t)) ELSE t

RECURSIVE TrimEnd(_)
TrimEnd(t) ==
    IF Len(t) > 0 /\ t[Len(t)] \in WhiteSpace THEN TrimEnd(SubSeq(t, 1, Len(t) - 1)) ELSE t

Trim(t) == TrimEnd(TrimStart(t))

\* Math.round(mm * PIXELS_PER_MM) for a length in units
ToPixels(len) == (2 * len * PIXELS_PER_MM + MM) \div (2 * MM)

\* The surface after fillRect(white) and fillText: ink is the set of
\* <<row, col, red>> the text drew, every other pixel is white (red = 255).
\* pixels is indexed by row * width + col and holds the red channel, the one
\* channel the code reads (pixels[(row * canvasW + col) * 4]).
Render(canvasW, canvasH, ink) ==
    [width |-> canvasW, height |-> canvasH,
     pixels |-> [i \in 0..(canvasW * canvasH - 1) |->
                    IF \E e \in ink : e[1] * canvasW + e[2] = i
                    THEN (CHOOSE e \in ink : e[1] * canvasW + e[2] = i)[3]
                    ELSE 255]]

isOn_atMost(cv, row, col) == col < cv.width /\ cv.pixels[row * cv.width + col] <= DarkBelow
isOn(cv, row, col) == col < cv.width /\ cv.pixels[row * cv.width + col] < DarkBelow

\* The block pushed for the run [runStart, col) of a row
runBlock(lidWidth, lidDepth, textDepth, row, runStart, col) ==
    LET mmPerPixel == MM \div PIXELS_PER_MM
        runLength == col - runStart
        w == runLength * mmPerPixel
        h == mmPerPixel
        xCenter == ((2 * runStart + runLength) * mmPerPixel) \div 2 - lidWidth \div 2
        yCenter == lidDepth \div 2 - ((2 * row + 1) * mmPerPixel) \div 2
    IN  Translate(<<xCenter, yCenter, textDepth \div 2>>, Cuboid(<<w, h, textDepth>>))

\* for (let col = 0; col <= canvasW; col++) with the running runStart
RECURSIVE scanRow(_, _, _, _, _, _, _)
scanRow(cv, lidWidth, lidDepth, textDepth, row, col, runStart) ==
    IF col > cv.width THEN <<>>
    ELSE IF isOn(cv, row, col) /\ runStart = -1
         THEN scanRow(cv, lidWidth, lidDepth, textDepth, row, col + 1, col)
    ELSE IF ~isOn(cv, row, col) /\ runStart # -1
         THEN <<runBlock(lidWidth, lidDepth, textDepth, row, runStart, col)>>
              \o scanRow(cv, lidWidth, lidDepth, textDepth, row, col + 1, -1)
    ELSE scanRow(cv, lidWidth, lidDepth, textDepth, row, col + 1, runStart)

\* for (let row = 0; row < canvasH; row++)
RECURSIVE scanRows(_, _, _, _, _)
scanRows(cv, lidWidth, lidDepth, textDepth, row) ==
    IF row >= cv.height THEN <<>>
    ELSE scanRow(cv, lidWidth, lidDepth, textDepth, row, 0, -1)
         \o scanRows(cv, lidWidth, lidDepth, textDepth, row + 1)

\* One round of the batch union: adjacent pairs, an odd last entry carried over
pairUp(current) ==
    [i \in 1..((Len(current) + 1) \div 2) |->
        IF 2 * i <= Len(current)
        THEN Union(current[2 * i - 1], current[2 * i])
        ELSE current[2 * i - 1]]

RECURSIVE treeReduce_sequential(_)
treeReduce_sequential(current) ==
    IF Len(current) > 1
    THEN treeReduce_sequential(<<Union(current[1], current[2])>>
                                 \o SubSeq(current, 3, Len(current)))
    ELSE current[1]

RECURSIVE treeReduce(_)
treeReduce(current) == IF Len(current) > 1 THEN treeReduce(pairUp(current)) ELSE current[1]

\* The surface the call acquires (none for a blank string) and what it returns
textToJscadGeometry(text, lidWidth, lidDepth, fontSize, textDepth, ink) ==
    IF Trim(text) = <<>>
    THEN [canvas |-> NoCanvas, result |-> Null]
    ELSE LET cv   == Render(ToPixels(lidWidth), ToPixels(lidDepth), ink)
             runs == scanRows(cv, lidWidth, lidDepth, textDepth, 0)
         IN  [canvas |-> cv,
              result |-> IF Len(runs) = 0 THEN Null
                         ELSE IF Len(runs) = 1 THEN runs[1]
                         ELSE treeReduce(runs)]

-----------------------------------------------------------------------------
(* SpecText: textToJscadGeometry, then generateLid on what it returned     *)

MaxTextLen == 2
MaxRuns == 8
TextChars == {" ", "\n", "a"}
Texts == SeqsUpTo(TextChars, MaxTextLen)

\* n separate dark pixels in one row
Dots(row, n) == {<<row, 2 * k, 0>> : k \in 0..(n - 1)}

\* What fillText may leave on a canvasW x canvasH surface: nothing, only
\* light anti-aliasing, one run, a run ending at the right edge, and several
\* runs over several rows separated by light pixels
GlyphInks(canvasW, canvasH) ==
    { {},
      {<<canvasH \div 2, canvasW \div 2, 200>>},
      {<<canvasH \div 2, canvasW \div 2 - 1, 0>>, <<canvasH \div 2, canvasW \div 2, 0>>},
      {<<0, canvasW - 2, 0>>, <<0, canvasW - 1, 127>>},
      {<<1, 1, 0>>, <<1, 2, 128>>, <<1, 3, 0>>, <<2, 1, 0>>},
      {<<1, 1, 0>>, <<1, 3, 0>>, <<2, 1, 0>>, <<2, 3, 0>>, <<3, 0, 0>>} }

\* Rows of 2..MaxRuns separate dark pixels, for the merging of many runs
DotInks(canvasW, canvasH) ==
    {Dots(canvasH - 1, n) : n \in 2..Min2(MaxRuns, canvasW \div 2)}

TextParamSpace ==
    {[DEFAULTS EXCEPT !.width = 10 * MM, !.depth = 10 * MM, !.height = 10 * MM,
                      !.wallThickness = 1 * MM, !.includeLid = TRUE,
                      !.lidText = t, !.lidTextStyle = st] :
        t \in Texts, st \in {"engraved", "embossed"}}

InitText ==
    /\ params \in TextParamSpace
    /\ boxPolys = NotRun /\ flatLid = NotRun /\ csgLid = NotRun
    /\ TextUnused /\ AppUnused /\ ExportUnused /\ CallsUnused

Rasterize ==
    /\ textGeom = NotRun
    /\ \E ink \in GlyphInks(ToPixels(params.width), ToPixels(params.depth))
                  \cup DotInks(ToPixels(params.width), ToPixels(params.depth)) :
          LET r == textToJscadGeometry(params.lidText, params.width, params.depth,
                                       params.lidTextSize, params.lidTextDepth, ink)
          IN  canvas' = r.canvas /\ textGeom' = r.result
    /\ UNCHANGED <<kernelVars, lidResult, appVars, exportVars, callVars>>

GenerateLid ==
    /\ textGeom # NotRun
    /\ lidResult = NotRun
    /\ lidResult' = generateLid(params, textGeom)
    /\ UNCHANGED <<kernelVars, canvas, textGeom, appVars, exportVars, callVars>>

NextText == Rasterize \/ GenerateLid

SpecText == InitText /\ [][NextText]_vars

-----------------------------------------------------------------------------
(* Claims about the text path                                              *)

IsBlank(t) == \A k \in 1..Len(t) : t[k] \in WhiteSpace
NoDarkPixel(cv) == \A i \in DOMAIN cv.pixels : cv.pixels[i] >= 128

\* C8: generateLid takes the CSG path if and only if a text solid is
\* supplied; a blank lidText, or a text that rasterizes to no dark run,
\* yields no text solid (textToJscadGeometry returns null, for a blank string
\* before acquiring a raster surface), and the lid generated is then exactly
\* the plain lid of generateFlatLid.
C8_TextSelectsPath ==
    /\ textGeom # NotRun =>
          /\ IsBlank(params.lidText) => (textGeom = Null /\ canvas = NoCanvas)
          /\ (canvas # NoCanvas /\ NoDarkPixel(canvas)) => textGeom = Null
    /\ lidResult # NotRun =>
          /\ (textGeom # Null) <=> (lidResult = generateLidCSG(params, textGeom))
          /\ (textGeom = Null) => (lidResult = generateFlatLid(params))

C8_Witness ==
    /\ lidResult # NotRun
    /\ ~IsBlank(params.lidText)
    /\ canvas # NoCanvas /\ NoDarkPixel(canvas)
    /\ lidResult = generateFlatLid(params)

-----------------------------------------------------------------------------
(* Hinge generators                                                        *)

HINGE_GAP == 200
HINGE_SEGS == 32

Cylinder(radius, height) ==
    [op |-> "cylinder", radius |-> radius, height |-> height, segments |-> HINGE_SEGS]
RotateY90(s) == [op |-> "rotateY90", of |-> s]

hingeXPositions_quarter(count, width) ==
    IF count = 1 THEN <<0>>
    ELSE IF count = 2 THEN <<-(width \div 4), width \div 4>>
    ELSE <<-(width \div 4), 0, width \div 4>>

hingeXPositions(count, width) ==
    IF count = 1 THEN <<0>>
    ELSE IF count = 2 THEN <<-((width * 3) \div 10), (width * 3) \div 10>>
    ELSE <<-(width \div 4), 0, width \div 4>>

makeKnuckle(K, R, r, armH) ==
    LET dz     == -(R \div 2)
        outer  == Translate(<<0, 0, dz>>, RotateY90(Cylinder(R, K)))
        bore   == Translate(<<0, 0, dz>>, RotateY90(Cylinder(r, K + 2 * MM)))
        barrel == Subtract(outer, bore)
        arm    == Translate(<<0, -(R \div 2), -(R + armH \div 2)>>, Cuboid(<<K, R, armH>>))
    IN  Union(barrel, arm)

\* geom = geom ? union(geom, part) : part, over the parts in order
RECURSIVE unionAll(_, _)
unionAll(geom, parts) ==
    IF Len(parts) = 0 THEN geom
    ELSE unionAll(IF geom = Null THEN Head(parts) ELSE Union(geom, Head(parts)), Tail(parts))

generateBoxHingeKnuckles_noGap(p) ==
    LET d2 == p.depth \div 2
        h2 == p.height \div 2
        R  == p.hingeDiameter \div 2
        r  == p.hingePinDiameter \div 2
        K  == p.hingeDiameter
        knuckle == makeKnuckle(K, R, r, p.wallThickness + 10 * MM)
        xs == hingeXPositions(p.hingeCount, p.width)
    IN  unionAll(Null,
            [i \in 1..Len(xs) |->
                Union(Translate(<<xs[i] - K, d2 + R, h2 + p.wallThickness + R>>, knuckle),
                      Translate(<<xs[i] + K, d2 + R, h2 + p.wallThickness + R>>, knuckle))])

generateBoxHingeKnuckles(p) ==
    LET d2 == p.depth \div 2
        h2 == p.height \div 2
        R  == p.hingeDiameter \div 2
        r  == p.hingePinDiameter \div 2
        K  == p.hingeDiameter
        knuckle == makeKnuckle(K, R, r, p.wallThickness + 10 * MM)
        xs == hingeXPositions(p.hingeCount, p.width)
    IN  unionAll(Null,
            [i \in 1..Len(xs) |->
                Union(Translate(<<xs[i] - K - HINGE_GAP, d2 + R, h2 + p.wallThickness + R>>, knuckle),
                      Translate(<<xs[i] + K + HINGE_GAP, d2 + R, h2 + p.wallThickness + R>>, knuckle))])

generateLidHingeKnuckles_capBottom(p) ==
    LET d2 == p.depth \div 2
        R  == p.hingeDiameter \div 2
        r  == p.hingePinDiameter \div 2
        K  == p.hingeDiameter
        knuckle == makeKnuckle(K, R, r, p.wallThickness)
        xs == hingeXPositions(p.hingeCount, p.width)
    IN  unionAll(Null,
            [i \in 1..Len(xs) |-> Translate(<<xs[i], d2 + R, R + p.wallThickness>>, knuckle)])

generateLidHingeKnuckles(p) ==
    LET d2 == p.depth \div 2
        R  == p.hingeDiameter \div 2
        r  == p.hingePinDiameter \div 2
        K  == p.hingeDiameter
        knuckle == makeKnuckle(K, R, r, p.wallThickness)
        xs == hingeXPositions(p.hingeCount, p.width)
    IN  unionAll(Null, [i \in 1..Len(xs) |-> Translate(<<xs[i], d2 + R, R>>, knuckle)])

generateHingePins_noOverhang(p) ==
    LET K         == p.hingeDiameter
        pinRadius == p.hingePinDiameter \div 2 - 150
        pinLength == 3 * K + 2 * HINGE_GAP
        xs        == hingeXPositions(p.hingeCount, p.width)
    IN  unionAll(Null,
            [i \in 1..Len(xs) |->
                Translate(<<xs[i], 0, 0>>, RotateY90(Cylinder(pinRadius, pinLength)))])

generateHingePins(p) ==
    LET K         == p.hingeDiameter
        pinRadius == p.hingePinDiameter \div 2 - 150
        pinLength == 3 * K + 2 * HINGE_GAP + 4 * MM
        xs        == hingeXPositions(p.hingeCount, p.width)
    IN  unionAll(Null,
            [i \in 1..Len(xs) |->
                Translate(<<xs[i], 0, 0>>, RotateY90(Cylinder(pinRadius, pinLength)))])

-----------------------------------------------------------------------------
(* Mesh-to-render adapter and serializer                                   *)

\* The bounding box of a solid; a subtraction stays within its first operand
RECURSIVE Extent(_)
Extent(s) ==
    CASE s.op = "cylinder" ->
            [lo |-> <<-s.radius, -s.radius, -(s.height \div 2)>>,
             hi |-> <<s.radius, s.radius, s.height \div 2>>]
      [] s.op = "cuboid" ->
            [lo |-> [k \in 1..3 |-> -(s.size[k] \div 2)], hi |-> [k \in 1..3 |-> s.size[k] \div 2]]
      [] s.op = "prism" ->
            [lo |-> <<Min2(s.points[1][1], Min2(s.points[2][1], s.points[3][1])),
                      Min2(s.points[1][2], Min2(s.points[2][2], s.points[3][2])), 0>>,
             hi |-> <<Max2(s.points[1][1], Max2(s.points[2][1], s.points[3][1])),
                      Max2(s.points[1][2], Max2(s.points[2][2], s.points[3][2])), s.height>>]
      [] s.op = "translate" ->
            LET e == Extent(s.of)
            IN  [lo |-> [k \in 1..3 |-> e.lo[k] + s.by[k]], hi |-> [k \in 1..3 |-> e.hi[k] + s.by[k]]]
      [] s.op = "rotateY90" ->
            LET e == Extent(s.of)
            IN  [lo |-> <<e.lo[3], e.lo[2], -e.hi[1]>>, hi |-> <<e.hi[3], e.hi[2], -e.lo[1]>>]
      [] s.op = "mirrorX" ->
            LET e == Extent(s.of)
            IN  [lo |-> <<-e.hi[1], e.lo[2], e.lo[3]>>, hi |-> <<-e.lo[1], e.hi[2], e.hi[3]>>]
      [] s.op = "subtract" -> Extent(s.a)
      [] s.op = "union" ->
            LET a == Extent(s.a)
                b == Extent(s.b)
            IN  [lo |-> [k \in 1..3 |-> Min2(a.lo[k], b.lo[k])],
                 hi |-> [k \in 1..3 |-> Max2(a.hi[k], b.hi[k])]]

\* The operations a solid of the CSG engine is built by
SolidOps ==
    {"cuboid", "prism", "cylinder", "translate", "rotateY90", "mirrorX", "subtract", "union"}

\* The polygons the engine holds for a solid.  The engine's mesh lies outside
\* the repository; a solid is given the six faces of its bounding box, each
\* counter-clockwise seen from outside, which tells the facets of one solid
\* from those of another.
enginePolygons(s) ==
    LET e  == Extent(s)
        x0 == e.lo[1]
        y0 == e.lo[2]
        z0 == e.lo[3]
        x1 == e.hi[1]
        y1 == e.hi[2]
        z1 == e.hi[3]
    IN  << <<<<x0, y0, z0>>, <<x0, y1, z0>>, <<x1, y1, z0>>, <<x1, y0, z0>>>>,
           <<<<x0, y0, z1>>, <<x1, y0, z1>>, <<x1, y1, z1>>, <<x0, y1, z1>>>>,
           <<<<x0, y0, z0>>, <<x1, y0, z0>>, <<x1, y0, z1>>, <<x0, y0, z1>>>>,
           <<<<x0, y1, z0>>, <<x0, y1, z1>>, <<x1, y1, z1>>, <<x1, y1, z0>>>>,
           <<<<x0, y0, z0>>, <<x0, y0, z1>>, <<x0, y1, z1>>, <<x0, y1, z0>>>>,
           <<<<x1, y0, z0>>, <<x1, y1, z0>>, <<x1, y1, z1>>, <<x1, y0, z1>>>> >>

\* jscadGeom.polygons and jscadGeom.transforms.  A polygon is the sequence of
\* its vertices.  A solid of the engine has the engine's polygons.  An absent
\* field reads as a list without entries: the code tests it only with
\* !polygons || polygons.length === 0 and with m && m.length === 16.
PolygonsOf(jscadGeom) ==
    IF "polygons" \in DOMAIN jscadGeom THEN jscadGeom.polygons
    ELSE IF "op" \in DOMAIN jscadGeom /\ jscadGeom.op \in SolidOps
         THEN enginePolygons(jscadGeom)
         ELSE <<>>
TransformsOf(jscadGeom) ==
    IF "transforms" \in DOMAIN jscadGeom THEN jscadGeom.transforms ELSE <<>>

\* m && m.length === 16 && !(m[0] === 1 && m[5] === 1 && m[10] === 1 &&
\*                           m[12] === 0 && m[13] === 0 && m[14] === 0)
hasTransform(m) ==
    /\ Len(m) = 16
    /\ ~(m[1] = 1 /\ m[6] = 1 /\ m[11] = 1 /\ m[13] = 0 /\ m[14] = 0 /\ m[15] = 0)

\* Column-major 4x4 matrix applied to a vertex (m[k] of the code is m[k + 1])
applyTransform_rowMajor(v, m) ==
    <<m[1] * v[1] + m[2] * v[2] + m[3] * v[3] + m[4],
      m[5] * v[1] + m[6] * v[2] + m[7] * v[3] + m[8],
      m[9] * v[1] + m[10] * v[2] + m[11] * v[3] + m[12]>>
applyTransform(v, m) ==
    <<m[1] * v[1] + m[5] * v[2] + m[9] * v[3] + m[13],
      m[2] * v[1] + m[6] * v[2] + m[10] * v[3] + m[14],
      m[3] * v[1] + m[7] * v[2] + m[11] * v[3] + m[15]>>

\* stlExporter.ts jscadToTriangles: the fan of every polygon, in order
jscadToTriangles(jscadGeom) ==
    LET polys == PolygonsOf(jscadGeom)
        m     == TransformsOf(jscadGeom)
        fan(verts) ==
            IF Len(verts) < 3 THEN <<>>
            ELSE [i \in 1..(Len(verts) - 2) |->
                    IF hasTransform(m)
                    THEN [v1 |-> applyTransform(verts[1], m),
                          v2 |-> applyTransform(verts[i + 1], m),
                          v3 |-> applyTransform(verts[i + 2], m)]
                    ELSE [v1 |-> <<verts[1][1], verts[1][2], verts[1][3]>>,
                          v2 |-> <<verts[i + 1][1], verts[i + 1][2], verts[i + 1][3]>>,
                          v3 |-> <<verts[i + 2][1], verts[i + 2][2], verts[i + 2][3]>>]]
    IN  IF polys = <<>> THEN <<>>
        ELSE Flatten([k \in 1..Len(polys) |-> fan(polys[k])])

\* A number stored in a Float32Array: the 32-bit float nearest to it.  A
\* length of v/1000 mm is a 32-bit float exactly when it is a multiple of
\* 1/8 mm (below 2^24 / 8 mm); otherwise the stored value differs from the
\* double it was computed as.
Float32(v) == [near |-> v, exact |-> v % (MM \div 8) = 0]

\* The running totals before each entry of a list of lengths
RECURSIVE RunningTotals(_)
RunningTotals(lens) ==
    IF Len(lens) = 0 THEN <<>>
    ELSE IF Len(lens) = 1 THEN <<0>>
    ELSE LET h     == Len(lens) \div 2
             left  == RunningTotals(SubSeq(lens, 1, h))
             right == RunningTotals(SubSeq(lens, h + 1, Len(lens)))
             total == left[h] + lens[h]
         IN  left \o [i \in 1..Len(right) |-> total + right[i]]

\* polygons.forEach of jscadToThreeGeometry: the numbers pushed to vertices
\* and to indices.  A polygon with fewer than 3 vertices returns early, so
\* vertexIndex counts the vertices of the polygons before it that were kept.
threeBuffers(polys, m) ==
    LET kept == SelectSeq(polys, LAMBDA polyVertices : Len(polyVertices) >= 3)
        has  == hasTransform(m)
        pushed(v) ==
            IF has
            THEN <<m[1] * v[1] + m[5] * v[2] + m[9] * v[3] + m[13],
                   m[2] * v[1] + m[6] * v[2] + m[10] * v[3] + m[14],
                   m[3] * v[1] + m[7] * v[2] + m[11] * v[3] + m[15]>>
            ELSE <<v[1], v[2], v[3]>>
        vertexIndex == RunningTotals([k \in 1..Len(kept) |-> Len(kept[k])])
    IN  [vertices |->
            Flatten([k \in 1..Len(kept) |->
                Flatten([i \in 1..Len(kept[k]) |-> pushed(kept[k][i])])]),
         indices |->
            Flatten([k \in 1..Len(kept) |->
                Flatten([i \in 1..(Len(kept[k]) - 2) |->
                    <<vertexIndex[k], vertexIndex[k] + i, vertexIndex[k] + i + 1>>])])]

\* The display geometry built from a JSCAD geometry: the position attribute
\* (a Float32BufferAttribute of item size 3) and the index.
jscadToThreeGeometry(jscadGeom) ==
    LET polys == PolygonsOf(jscadGeom)
        bufs  == threeBuffers(polys, TransformsOf(jscadGeom))
    IN  IF polys = <<>>
        THEN [op |-> "buffer-geometry", position |-> <<>>, index |-> <<>>]
        ELSE [op |-> "buffer-geometry",
              position |-> [i \in 1..Len(bufs.vertices) |-> Float32(bufs.vertices[i])],
              index |-> bufs.indices]

-----------------------------------------------------------------------------
(* The interchange text.  A text is the sequence of its lines; a line is   *)
(* its indentation, its words and the numbers after them, each number as   *)
(* the characters the template literal writes for it.                      *)

DigitChars == <<"0", "1", "2", "3", "4", "5", "6", "7", "8", "9">>

\* The decimal digits of a natural number
RECURSIVE Digits(_)
Digits(n) ==
    IF n < 10 THEN <<DigitChars[n + 1]>>
    ELSE Digits(n \div 10) \o <<DigitChars[(n % 10) + 1]>>

\* The digits after the decimal point of f/MM, 0 < f < MM, without trailing
\* zeros
FractionDigits(f) ==
    LET d == <<DigitChars[(f \div 100) + 1], DigitChars[((f \div 10) % 10) + 1],
               DigitChars[(f % 10) + 1]>>
    IN  IF f % 100 = 0 THEN SubSeq(d, 1, 1)
        ELSE IF f % 10 = 0 THEN SubSeq(d, 1, 2)
        ELSE d

\* `${x}` of a length x = v/MM: Number::toString writes the sign, the
\* integer digits and, when there is a fraction, the point and the fraction
\* digits; both zeros are written "0"
NumberToString(v) ==
    (IF v < 0 THEN <<"-">> ELSE <<>>)
        \o Digits(Abs(v) \div MM)
        \o (IF Abs(v) % MM = 0 THEN <<>> ELSE <<".">> \o FractionDigits(Abs(v) % MM))

RECURSIVE Gcd(_, _)
Gcd(a, b) == IF b = 0 THEN a ELSE Gcd(b, a % b)

\* A vector divided by the greatest common divisor of its entries
Reduced(e) ==
    LET g == Gcd(Gcd(Abs(e[1]), Abs(e[2])), Abs(e[3]))
    IN  IF g = 0 THEN e ELSE [k \in 1..3 |-> e[k] \div g]

\* nx, ny, nz of trianglesToSTL after the division: the entry num / sqrt(sqrtOf)
\* of the cross product of the two edge vectors.  The edges and the product
\* are taken reduced, which leaves n / len as it is and len > 0 as it is.
\* When len is 0 nothing is divided and the entries stay the products.
faceNormal_alwaysDivide(v1, v2, v3) ==
    LET e1   == Reduced([k \in 1..3 |-> v2[k] - v1[k]])
        e2   == Reduced([k \in 1..3 |-> v3[k] - v1[k]])
        n    == Reduced(<<e1[2] * e2[3] - e1[3] * e2[2],
                          e1[3] * e2[1] - e1[1] * e2[3],
                          e1[1] * e2[2] - e1[2] * e2[1]>>)
        len2 == n[1] * n[1] + n[2] * n[2] + n[3] * n[3]
    IN  [k \in 1..3 |-> [num |-> n[k], sqrtOf |-> len2]]
faceNormal(v1, v2, v3) ==
    LET e1   == Reduced([k \in 1..3 |-> v2[k] - v1[k]])
        e2   == Reduced([k \in 1..3 |-> v3[k] - v1[k]])
        n    == Reduced(<<e1[2] * e2[3] - e1[3] * e2[2],
                          e1[3] * e2[1] - e1[1] * e2[3],
                          e1[1] * e2[2] - e1[2] * e2[1]>>)
        len2 == n[1] * n[1] + n[2] * n[2] + n[3] * n[3]
    IN  IF len2 > 0
        THEN [k \in 1..3 |-> [num |-> n[k], sqrtOf |-> len2]]
        ELSE [k \in 1..3 |-> [num |-> n[k], sqrtOf |-> 1]]

\* `${nx}` of an entry of the normal: 0 / 0 is NaN; an entry of an
\* axis-parallel unit vector is written as the number it is; the digits of
\* another quotient are not computed, the text keeps the quotient
NormalToString(q) ==
    IF q.sqrtOf = 0 THEN <<"N", "a", "N">>
    ELSE IF q.sqrtOf = 1 THEN NumberToString(q.num * MM)
    ELSE NumberToString(q.num * MM) \o <<"/", "sqrt">> \o NumberToString(q.sqrtOf * MM)

Line(indent, words, nums) == [indent |-> indent, words |-> words, nums |-> nums]

\* The seven lines written for one triangle
facetLines_v3BeforeV2(t) ==
    LET n == faceNormal(t.v1, t.v2, t.v3)
    IN  << Line(2, <<"facet", "normal">>, [k \in 1..3 |-> NormalToString(n[k])]),
           Line(4, <<"outer", "loop">>, <<>>),
           Line(6, <<"vertex">>, [k \in 1..3 |-> NumberToString(t.v1[k])]),
           Line(6, <<"vertex">>, [k \in 1..3 |-> NumberToString(t.v3[k])]),
           Line(6, <<"vertex">>, [k \in 1..3 |-> NumberToString(t.v2[k])]),
           Line(4, <<"endloop">>, <<>>),
           Line(2, <<"endfacet">>, <<>>) >>
facetLines(t) ==
    LET n == faceNormal(t.v1, t.v2, t.v3)
    IN  << Line(2, <<"facet", "normal">>, [k \in 1..3 |-> NormalToString(n[k])]),
           Line(4, <<"outer", "loop">>, <<>>),
           Line(6, <<"vertex">>, [k \in 1..3 |-> NumberToString(t.v1[k])]),
           Line(6, <<"vertex">>, [k \in 1..3 |-> NumberToString(t.v2[k])]),
           Line(6, <<"vertex">>, [k \in 1..3 |-> NumberToString(t.v3[k])]),
           Line(4, <<"endloop">>, <<>>),
           Line(2, <<"endfacet">>, <<>>) >>

\* stlExporter.ts trianglesToSTL
trianglesToSTL(tris) ==
    <<Line(0, <<"solid", "box">>, <<>>)>>
        \o Flatten([t \in 1..Len(tris) |-> facetLines(tris[t])])
        \o <<Line(0, <<"endsolid", "box">>, <<>>)>>

\* downloadSTL(stl, filename): the link clicked offers the text under the name
downloadSTL(files, text, filename) ==
    Append(files, [filename |-> filename, text |-> text])

\* exportJscadToSTL(jscadGeom, filename)
exportJscadToSTL(files, jscadGeom, filename) ==
    downloadSTL(files, trianglesToSTL(jscadToTriangles(jscadGeom)), filename)

\* exportMultipleJscadToSTL(jscadGeoms, filename): one file, one named
\* solid, holding the facets of every geometry of the list in order
exportMultipleJscadToSTL(files, jscadGeoms, filename) ==
    downloadSTL(files,
        trianglesToSTL(Flatten([i \in 1..Len(jscadGeoms) |-> jscadToTriangles(jscadGeoms[i])])),
        filename)

\* `box_${params.width}x${params.depth}x${params.height}.stl`
exportFilename(prefix, p) ==
    <<prefix>> \o NumberToString(p.width) \o <<"x">> \o NumberToString(p.depth)
        \o <<"x">> \o NumberToString(p.height) \o <<".stl">>

-----------------------------------------------------------------------------
(* Spec: the App, its parameter changes and its regeneration effect        *)

AppWalls == {1 * MM, 3 * MM}
AppTexts == {<<>>, <<"a">>}

\* Records the control panel can set
AppParamSpace ==
    {[DEFAULTS EXCEPT !.width = 10 * MM, !.depth = 10 * MM, !.height = 10 * MM,
                      !.wallThickness = wt, !.includeLid = il, !.includeHinge = ih,
                      !.lidText = t] :
        wt \in AppWalls, il \in BOOLEAN, ih \in BOOLEAN, t \in AppTexts}

\* useState initial values; the effect runs after the first render
Init ==
    /\ params \in {DEFAULTS} \cup AppParamSpace
    /\ boxPolys = NotRun /\ flatLid = NotRun /\ csgLid = NotRun
    /\ TextUnused
    /\ geometry = Null /\ lidGeometry = Null
    /\ hingeBoxGeometry = Null /\ hingeLidGeometry = Null
    /\ boxJscad = Null /\ lidJscad = Null
    /\ hingeBoxJscad = Null /\ hingeLidJscad = Null /\ hingePinJscad = Null
    /\ effect = "pending"
    /\ ExportUnused /\ CallsUnused

\* ControlPanel onChange: setParams(p)
SetParams ==
    /\ effect # "pending"
    /\ \E p \in AppParamSpace : params' = p
    /\ effect' = "pending"
    /\ UNCHANGED <<boxPolys, flatLid, csgLid, textVars, geomState, exportVars, callVars>>

\* handleReset: setParams(DEFAULTS); setting the object already held schedules nothing
handleReset ==
    /\ effect # "pending"
    /\ params' = DEFAULTS
    /\ effect' = IF params = DEFAULTS THEN effect ELSE "pending"
    /\ UNCHANGED <<boxPolys, flatLid, csgLid, textVars, geomState, exportVars, callVars>>

RunEffect_hingeKeptWithoutLid ==
    /\ effect = "pending"
    /\ \E ink \in GlyphInks(ToPixels(params.width), ToPixels(params.depth)) :
          LET jscadGeom    == generateBox(params)
              textGeomL    == IF Trim(params.lidText) # <<>>
                              THEN textToJscadGeometry(params.lidText, params.width,
                                       params.depth, params.lidTextSize,
                                       params.lidTextDepth, ink).result
                              ELSE Null
              lidJscadGeom == generateLid(params, textGeomL)
              hBox         == generateBoxHingeKnuckles(params)
              hLid         == generateLidHingeKnuckles(params)
              hPin         == generateHingePins(params)
          IN  /\ boxJscad' = jscadGeom
              /\ geometry' = jscadToThreeGeometry(jscadGeom)
              /\ IF ~params.includeLid
                 THEN /\ lidJscad' = Null /\ lidGeometry' = Null
                      /\ UNCHANGED <<hingeBoxJscad, hingeLidJscad, hingePinJscad,
                                     hingeBoxGeometry, hingeLidGeometry>>
                      /\ effect' = "done"
                 ELSE IF lidJscadGeom = Throws
                 THEN /\ UNCHANGED <<lidJscad, lidGeometry, hingeBoxJscad, hingeLidJscad,
                                     hingePinJscad, hingeBoxGeometry, hingeLidGeometry>>
                      /\ effect' = "caught"
                 ELSE /\ lidJscad' = lidJscadGeom
                      /\ lidGeometry' = jscadToThreeGeometry(lidJscadGeom)
                      /\ IF params.includeHinge
                         THEN /\ hingeBoxJscad' = hBox /\ hingeLidJscad' = hLid
                              /\ hingePinJscad' = hPin
                              /\ hingeBoxGeometry' = jscadToThreeGeometry(hBox)
                              /\ hingeLidGeometry' = jscadToThreeGeometry(hLid)
                         ELSE /\ hingeBoxJscad' = Null /\ hingeLidJscad' = Null
                              /\ hingePinJscad' = Null
                              /\ hingeBoxGeometry' = Null /\ hingeLidGeometry' = Null
                      /\ effect' = "done"
    /\ UNCHANGED <<kernelVars, textVars, exportVars, callVars>>

\* useEffect(..., [params]): the setters called before a throw take effect,
\* the catch block only logs
RunEffect ==
    /\ effect = "pending"
    /\ \E ink \in GlyphInks(ToPixels(params.width), ToPixels(params.depth)) :
          LET jscadGeom    == generateBox(params)
              textGeomL    == IF Trim(params.lidText) # <<>>
                              THEN textToJscadGeometry(params.lidText, params.width,
                                       params.depth, params.lidTextSize,
                                       params.lidTextDepth, ink).result
                              ELSE Null
              lidJscadGeom == generateLid(params, textGeomL)
              hBox         == generateBoxHingeKnuckles(params)
              hLid         == generateLidHingeKnuckles(params)
              hPin         == generateHingePins(params)
          IN  /\ boxJscad' = jscadGeom
              /\ geometry' = jscadToThreeGeometry(jscadGeom)
              /\ IF ~params.includeLid
                 THEN /\ lidJscad' = Null /\ lidGeometry' = Null
                      /\ hingeBoxJscad' = Null /\ hingeLidJscad' = Null
                      /\ hingePinJscad' = Null
                      /\ hingeBoxGeometry' = Null /\ hingeLidGeometry' = Null
                      /\ effect' = "done"
                 ELSE IF lidJscadGeom = Throws
                 THEN /\ UNCHANGED <<lidJscad, lidGeometry, hingeBoxJscad, hingeLidJscad,
                                     hingePinJscad, hingeBoxGeometry, hingeLidGeometry>>
                      /\ effect' = "caught"
                 ELSE /\ lidJscad' = lidJscadGeom
                      /\ lidGeometry' = jscadToThreeGeometry(lidJscadGeom)
                      /\ IF params.includeHinge
                         THEN /\ hingeBoxJscad' = hBox /\ hingeLidJscad' = hLid
                              /\ hingePinJscad' = hPin
                              /\ hingeBoxGeometry' = jscadToThreeGeometry(hBox)
                              /\ hingeLidGeometry' = jscadToThreeGeometry(hLid)
                         ELSE /\ hingeBoxJscad' = Null /\ hingeLidJscad' = Null
                              /\ hingePinJscad' = Null
                              /\ hingeBoxGeometry' = Null /\ hingeLidGeometry' = Null
                      /\ effect' = "done"
    /\ UNCHANGED <<kernelVars, textVars, exportVars, callVars>>

Next == SetParams \/ handleReset \/ RunEffect

Spec == Init /\ [][Next]_vars

-----------------------------------------------------------------------------
(* Claims about the App                                                    *)

\* C7: if generation throws for a new Parameter Record, the effect catches it
\* and the displayed and exportable geometry is left exactly as it was: box,
\* lid and hinge geometry states all keep the values they had before the
\* parameter change (stated for a change made while a box is displayed).
C7_GeometryKeptOnThrow ==
    [][(effect = "pending" /\ effect' = "caught" /\ boxJscad # Null)
          => geomState' = geomState]_vars

\* The lid and hinge states are the ones a throw in generateLid leaves alone.
C7_LidKeptOnThrow ==
    [][(effect = "pending" /\ effect' = "caught")
          => <<lidJscad, lidGeometry, hingeBoxJscad, hingeLidJscad, hingePinJscad,
               hingeBoxGeometry, hingeLidGeometry>>'
             = <<lidJscad, lidGeometry, hingeBoxJscad, hingeLidJscad, hingePinJscad,
                 hingeBoxGeometry, hingeLidGeometry>>]_vars

-----------------------------------------------------------------------------
(* Claims about the outer bottom of the box                                *)

RECURSIVE SumSeq(_)
SumSeq(s) == IF Len(s) = 0 THEN 0 ELSE Head(s) + SumSeq(Tail(s))

\* Areas are measured in squares of 0.01 mm so that the products stay small
AreaUnit == MM \div 100
OnAreaGrid(q) == \A k \in 1..Len(q) : q[k][1] % AreaUnit = 0 /\ q[k][2] % AreaUnit = 0

\* Twice the (unsigned) area of a polygon lying in a plane Z = const
Area2(q) ==
    LET X(k) == q[k][1] \div AreaUnit
        Y(k) == q[k][2] \div AreaUnit
        nx(k) == (k % Len(q)) + 1
    IN  Abs(SumSeq([k \in 1..Len(q) |-> X(k) * Y(nx(k)) - X(nx(k)) * Y(k)]))

\* Indices of the polygons lying in the plane Z = z, in order
PolysAtZ(polys, z) ==
    SelectSeq([k \in 1..Len(polys) |-> k],
              LAMBDA k : \A i \in 1..Len(polys[k]) : polys[k][i][3] = z)

MinOf(S) == CHOOSE x \in S : \A y \in S : x <= y
MaxOf(S) == CHOOSE x \in S : \A y \in S : x >= y
BoxOf(q) ==
    [x0 |-> MinOf({q[i][1] : i \in 1..Len(q)}), x1 |-> MaxOf({q[i][1] : i \in 1..Len(q)}),
     y0 |-> MinOf({q[i][2] : i \in 1..Len(q)}), y1 |-> MaxOf({q[i][2] : i \in 1..Len(q)})]

\* Two polygons share interior points only if their bounding cells do
CellsOverlap(a, b) ==
    /\ Max2(a.x0, b.x0) < Min2(a.x1, b.x1)
    /\ Max2(a.y0, b.y0) < Min2(a.y1, b.y1)

\* The polygons at the outer bottom lie inside the footprint, no two of them
\* overlap, and their areas add up to W*D minus four triangles of area c^2/2
BottomTiles(polys, p, c) ==
    LET idx   == PolysAtZ(polys, -(p.height \div 2))
        cells == [i \in 1..Len(idx) |-> BoxOf(polys[idx[i]])] \o <<>>
    IN  /\ \A i \in 1..Len(idx) :
              /\ 2 * cells[i].x0 >= -p.width /\ 2 * cells[i].x1 <= p.width
              /\ 2 * cells[i].y0 >= -p.depth /\ 2 * cells[i].y1 <= p.depth
        /\ \A i \in 1..Len(idx) : \A j \in (i + 1)..Len(idx) :
              ~CellsOverlap(cells[i], cells[j])
        /\ \A i \in 1..Len(idx) : OnAreaGrid(polys[idx[i]])
        /\ p.width % AreaUnit = 0 /\ p.depth % AreaUnit = 0 /\ c % AreaUnit = 0
        /\ SumSeq([i \in 1..Len(idx) |-> Area2(polys[idx[i]])])
              = 2 * (p.width \div AreaUnit) * (p.depth \div AreaUnit)
                - 4 * (c \div AreaUnit) * (c \div AreaUnit)

\* C11: for every effective chamfer c in [0, min(wt, W/4, D/4)] and every set
\* of divisions, the polygons generateBox emits on the outer bottom plane
\* Z = -H/2 tile the footprint without overlap and their total area equals
\* W*D minus four corner triangles of area c^2/2 each.
C11_BottomTilesAnyDivisions ==
    boxPolys # NotRun => BottomTiles(boxPolys.polygons, params, ExpectedChamfer(params))

\* C11 amended: the same for divisions whose bands [pos - wt/2, pos + wt/2]
\* are pairwise disjoint and lie inside the inner footprint.
C11_BottomTiles ==
    (/\ boxPolys # NotRun
     /\ BoxValid(params)
     /\ BandsDisjointInside(xDivs(params), params.wallThickness, boxIw2(params))
     /\ BandsDisjointInside(yDivs(params), params.wallThickness, boxId2(params)))
    => BottomTiles(boxPolys.polygons, params, ExpectedChamfer(params))

C11_Witness ==
    /\ boxPolys # NotRun
    /\ ExpectedChamfer(params) > 0
    /\ Len(params.divisionsX) = 2 /\ Len(params.divisionsZ) = 1
    /\ BandsDisjointInside(xDivs(params), params.wallThickness, boxIw2(params))
    /\ BandsDisjointInside(yDivs(params), params.wallThickness, boxId2(params))
    /\ \E k \in SeqSet(PolysAtZ(boxPolys.polygons, -(params.height \div 2))) :
          Len(boxPolys.polygons[k]) = 3

-----------------------------------------------------------------------------
(* Claims about the faces of the plain default box                         *)

\* Indices of the polygons lying in the plane (coordinate axis) = v
PolysOn(polys, axis, v) ==
    {k \in 1..Len(polys) : \A i \in 1..Len(polys[k]) : polys[k][i][axis] = v}

\* The polygons of the five outer planes below the top: bottom and four sides
OuterPolys(polys, p) ==
    PolysOn(polys, 3, -boxH2(p))
      \cup PolysOn(polys, 1, -boxW2(p)) \cup PolysOn(polys, 1, boxW2(p))
      \cup PolysOn(polys, 2, -boxD2(p)) \cup PolysOn(polys, 2, boxD2(p))
RimPolys(polys, p) == PolysOn(polys, 3, boxH2(p))
FloorPolys(polys, p) == PolysOn(polys, 3, boxFl(p))
InnerWallPolys(polys, p) ==
    PolysOn(polys, 1, -boxIw2(p)) \cup PolysOn(polys, 1, boxIw2(p))
      \cup PolysOn(polys, 2, -boxId2(p)) \cup PolysOn(polys, 2, boxId2(p))

\* The top polygons lie inside the footprint, do not overlap each other or the
\* inner footprint, and cover everything else: the inner footprint is the one
\* opening of the rim
RimOneOpening(polys, p) ==
    LET idx   == PolysAtZ(polys, boxH2(p))
        cells == [i \in 1..Len(idx) |-> BoxOf(polys[idx[i]])] \o <<>>
        hole  == [x0 |-> -boxIw2(p), x1 |-> boxIw2(p), y0 |-> -boxId2(p), y1 |-> boxId2(p)]
    IN  /\ \A i \in 1..Len(idx) :
              /\ cells[i].x0 >= -boxW2(p) /\ cells[i].x1 <= boxW2(p)
              /\ cells[i].y0 >= -boxD2(p) /\ cells[i].y1 <= boxD2(p)
              /\ ~CellsOverlap(cells[i], hole)
              /\ OnAreaGrid(polys[idx[i]])
        /\ \A i \in 1..Len(idx) : \A j \in (i + 1)..Len(idx) :
              ~CellsOverlap(cells[i], cells[j])
        /\ SumSeq([i \in 1..Len(idx) |-> Area2(polys[idx[i]])])
              = 2 * (p.width \div AreaUnit) * (p.depth \div AreaUnit)
                - 2 * (boxIw(p) \div AreaUnit) * (boxId(p) \div AreaUnit)

\* The box of the example: W=80, D=60, H=40, wt=2, no divisions, no chamfer
PlainExampleRan ==
    /\ boxPolys # NotRun
    /\ params.width = 80 * MM /\ params.depth = 60 * MM /\ params.height = 40 * MM
    /\ params.wallThickness = 2 * MM /\ params.chamferSize = 0
    /\ params.divisionsX = <<>> /\ params.divisionsZ = <<>>

\* C12: for W=80, D=60, H=40, wt=2 with no divisions and no chamfer, the
\* number of faces generateBox returns equals the analytic count for a hollow
\* rectangular prism: 6 outer faces, 1 inner floor, 4 inner walls, and the top
\* rim with exactly one cavity opening.  (The six outer faces are counted
\* either with or without the top plane.)
C12_AnalyticFaceCount ==
    PlainExampleRan =>
        LET polys == boxPolys.polygons
            outer == Cardinality(OuterPolys(polys, params))
            rim   == Cardinality(RimPolys(polys, params))
        IN  /\ outer = 6 \/ outer + rim = 6
            /\ Cardinality(FloorPolys(polys, params)) = 1
            /\ Cardinality(InnerWallPolys(polys, params)) = 4
            /\ RimOneOpening(polys, params)

\* C12 amended: the polygons generateBox returns lie in the 11 planes of a
\* hollow rectangular prism and split its outer faces at the wall-thickness
\* breakpoints: 9 quads on the bottom, 3 on each of the four sides, 8 on the
\* top rim around exactly one cavity opening, 1 inner floor and 4 inner
\* walls, 34 polygons in all.
C12_TessellatedFaceCount ==
    PlainExampleRan =>
        LET polys == boxPolys.polygons
            p     == params
        IN  /\ Cardinality(PolysOn(polys, 3, -boxH2(p))) = 9
            /\ \A v \in {-boxW2(p), boxW2(p)} : Cardinality(PolysOn(polys, 1, v)) = 3
            /\ \A v \in {-boxD2(p), boxD2(p)} : Cardinality(PolysOn(polys, 2, v)) = 3
            /\ Cardinality(RimPolys(polys, p)) = 8
            /\ RimOneOpening(polys, p)
            /\ Cardinality(FloorPolys(polys, p)) = 1
            /\ Cardinality(InnerWallPolys(polys, p)) = 4
            /\ Len(polys) = 34
            /\ \A k \in 1..Len(polys) : Len(polys[k]) = 4

C12_Witness == PlainExampleRan /\ IsClosedMesh(boxPolys.polygons)

-----------------------------------------------------------------------------
(* Claims about the placement of the dividers                              *)

\* The mesh shows a divider across the given axis (1 = X, 2 = Y) occupying
\* [centre - wt/2, centre + wt/2]: its two wall faces stand in the planes
\* centre - wt/2 and centre + wt/2 and rise from the floor to the top, the
\* top surface closes the band between them, and no floor polygon reaches
\* into the band.
Lo(q, axis) == MinOf({q[i][axis] : i \in 1..Len(q)})
Hi(q, axis) == MaxOf({q[i][axis] : i \in 1..Len(q)})
DividerOccupies(polys, p, axis, centre) ==
    LET lo == centre - p.wallThickness \div 2
        hi == centre + p.wallThickness \div 2
    IN  /\ \A v \in {lo, hi} :
              /\ PolysOn(polys, axis, v) # {}
              /\ \A k \in PolysOn(polys, axis, v) :
                    Lo(polys[k], 3) = boxFl(p) /\ Hi(polys[k], 3) = boxH2(p)
        /\ \E k \in RimPolys(polys, p) :
              Lo(polys[k], axis) = lo /\ Hi(polys[k], axis) = hi
        /\ \A k \in FloorPolys(polys, p) :
              ~(Max2(Lo(polys[k], axis), lo) < Min2(Hi(polys[k], axis), hi))

\* The example of the claim: W = 80, wt = 2 and a single X divider at 50%
DividerExampleRan ==
    /\ boxPolys # NotRun
    /\ params.width = 80 * MM /\ params.wallThickness = 2 * MM
    /\ params.divisionsX = <<50>>

\* C13: a division percentage p along an axis with inner extent
\* I = outer - 2*wt places the divider's centreline at -I/2 + (p/100)*I and
\* the divider occupies [centre - wt/2, centre + wt/2]; a single divider at
\* 50% with W=80, wt=2 has its centreline at X = 0 and occupies X in [-1, 1].
C13_DividerPlacement ==
    boxPolys # NotRun =>
        LET polys == boxPolys.polygons
            Ix    == params.width - 2 * params.wallThickness
            Iy    == params.depth - 2 * params.wallThickness
        IN  /\ \A k \in 1..Len(params.divisionsX) :
                  DividerOccupies(polys, params, 1,
                      -(Ix \div 2) + (params.divisionsX[k] * Ix) \div 100)
            /\ \A k \in 1..Len(params.divisionsZ) :
                  DividerOccupies(polys, params, 2,
                      -(Iy \div 2) + (params.divisionsZ[k] * Iy) \div 100)
            /\ DividerExampleRan =>
                  /\ DividerOccupies(polys, params, 1, 0)
                  /\ PolysOn(polys, 1, -1 * MM) # {} /\ PolysOn(polys, 1, 1 * MM) # {}

C13_Witness ==
    /\ DividerExampleRan
    /\ \E k \in RimPolys(boxPolys.polygons, params) :
          Lo(boxPolys.polygons[k], 1) = -1 * MM /\ Hi(boxPolys.polygons[k], 1) = 1 * MM

-----------------------------------------------------------------------------
(* SpecHinge: the three hinge generators applied to a bounded set of       *)
(* Parameter Records, in any order                                         *)

HingeWidths == {80 * MM, 100 * MM}
HingeDiameters == {6 * MM, 6 * MM + MM \div 2, 14 * MM}
HingePinDiameters == {MM + MM \div 2, 2 * MM + MM \div 2, 5 * MM}
HingeHeights == {25 * MM, 40 * MM}
HingeWalls == {1 * MM, 2 * MM}

HingeParamSpace ==
    {[DEFAULTS EXCEPT !.width = w, !.height = h, !.wallThickness = wt,
                      !.includeHinge = TRUE, !.hingeCount = n,
                      !.hingeDiameter = hd, !.hingePinDiameter = pd] :
        w \in HingeWidths, h \in HingeHeights, wt \in HingeWalls, n \in 1..3,
        hd \in HingeDiameters, pd \in HingePinDiameters}

InitHinge ==
    /\ params \in HingeParamSpace
    /\ boxPolys = NotRun /\ flatLid = NotRun /\ csgLid = NotRun
    /\ TextUnused /\ AppUnused /\ ExportUnused /\ CallsUnused

GenerateBoxHingeKnuckles ==
    /\ hingeBoxJscad = Null
    /\ hingeBoxJscad' = generateBoxHingeKnuckles(params)
    /\ UNCHANGED <<kernelVars, textVars, geometry, lidGeometry, hingeBoxGeometry,
                   hingeLidGeometry, boxJscad, lidJscad, hingeLidJscad, hingePinJscad, effect,
                   exportVars, callVars>>

GenerateLidHingeKnuckles ==
    /\ hingeLidJscad = Null
    /\ hingeLidJscad' = generateLidHingeKnuckles(params)
    /\ UNCHANGED <<kernelVars, textVars, geometry, lidGeometry, hingeBoxGeometry,
                   hingeLidGeometry, boxJscad, lidJscad, hingeBoxJscad, hingePinJscad, effect,
                   exportVars, callVars>>

GenerateHingePins ==
    /\ hingePinJscad = Null
    /\ hingePinJscad' = generateHingePins(params)
    /\ UNCHANGED <<kernelVars, textVars, geometry, lidGeometry, hingeBoxGeometry,
                   hingeLidGeometry, boxJscad, lidJscad, hingeBoxJscad, hingeLidJscad, effect,
                   exportVars, callVars>>

NextHinge == GenerateBoxHingeKnuckles \/ GenerateLidHingeKnuckles \/ GenerateHingePins

SpecHinge == InitHinge /\ [][NextHinge]_vars

-----------------------------------------------------------------------------
(* Observations of a hinge solid                                           *)

\* The solids joined by the unions at the top of a geometry, in order
RECURSIVE Parts(_)
Parts(s) == IF s.op = "union" THEN Parts(s.a) \o Parts(s.b) ELSE <<s>>

\* The cylinders of a solid with their centres and axes in its coordinates.
\* cylinder() is centred on the origin with its axis along Z; the rotation by
\* +90 degrees about Y takes (x, y, z) to (z, y, -x).
RECURSIVE CylindersOf(_)
CylindersOf(s) ==
    CASE s.op = "cylinder" ->
            {[c |-> <<0, 0, 0>>, radius |-> s.radius, height |-> s.height, axis |-> "z"]}
      [] s.op \in {"cuboid", "prism"} -> {}
      [] s.op = "translate" ->
            {[l EXCEPT !.c = <<l.c[1] + s.by[1], l.c[2] + s.by[2], l.c[3] + s.by[3]>>] :
                l \in CylindersOf(s.of)}
      [] s.op = "rotateY90" ->
            {[l EXCEPT !.c = <<l.c[3], l.c[2], -l.c[1]>>,
                       !.axis = IF l.axis = "z" THEN "x" ELSE IF l.axis = "x" THEN "z" ELSE "y"] :
                l \in CylindersOf(s.of)}
      [] s.op = "mirrorX" ->
            {[l EXCEPT !.c = <<-l.c[1], l.c[2], l.c[3]>>] : l \in CylindersOf(s.of)}
      [] s.op \in {"union", "subtract"} -> CylindersOf(s.a) \cup CylindersOf(s.b)

HingesRan == hingeBoxJscad # Null /\ hingeLidJscad # Null /\ hingePinJscad # Null

\* The X centre of a solid's bounding box
CentreX(s) == (Extent(s).lo[1] + Extent(s).hi[1]) \div 2

-----------------------------------------------------------------------------
(* Claims about the hinges                                                 *)

\* The hinge centres the claim names for a count and a width
ClaimedCentres(count, width) ==
    CASE count = 1 -> <<0>>
      [] count = 2 -> <<-((3 * width) \div 10), (3 * width) \div 10>>
      [] count = 3 -> <<-(width \div 4), 0, width \div 4>>

\* C14: hingeXPositions returns exactly hingeCount centres for hingeCount in
\* {1,2,3}, symmetric about X = 0: [0] for 1, [-0.3*width, +0.3*width] for 2
\* (-30 and +30 for width 100) and [-width/4, 0, +width/4] for 3; the box
\* knuckles, the lid knuckles and the pins all use these same centres.
C14_HingeCentres ==
    HingesRan =>
        LET n   == params.hingeCount
            xs  == hingeXPositions(n, params.width)
            box == Parts(hingeBoxJscad)
            lid == Parts(hingeLidJscad)
            pin == Parts(hingePinJscad)
        IN  /\ Len(xs) = n /\ xs = ClaimedCentres(n, params.width)
            /\ \A i \in 1..n : xs[i] = -xs[n + 1 - i]
            /\ (n = 2 /\ params.width = 100 * MM) => xs = <<-30 * MM, 30 * MM>>
            /\ Len(lid) = n /\ \A i \in 1..n : CentreX(lid[i]) = xs[i]
            /\ Len(pin) = n /\ \A i \in 1..n : CentreX(pin[i]) = xs[i]
            /\ Len(box) = 2 * n
            /\ \A i \in 1..n : CentreX(box[2 * i - 1]) + CentreX(box[2 * i]) = 2 * xs[i]

C14_Witness ==
    /\ HingesRan /\ params.hingeCount = 2 /\ params.width = 100 * MM
    /\ CentreX(Parts(hingePinJscad)[1]) = -30 * MM
    /\ CentreX(Parts(hingeLidJscad)[2]) = 30 * MM

\* The (Y, Z) positions of the barrel axes of a knuckle, lifted by dz
AxesYZ(s, dz) == {<<l.c[2], l.c[3] + dz>> : l \in {m \in CylindersOf(s) : m.axis = "x"}}

\* C15: for every hinge position and every Parameter Record, the lid
\* knuckle's barrel axis, mapped into box coordinates by seating the lid (lid
\* cap bottom Z = -wt resting on the box top Z = H/2), coincides exactly with
\* the box knuckles' barrel axis: same Y = D/2 + R and same Z, with the R/2
\* barrel shift applied identically to both.
C15_AxesCoincide ==
    HingesRan =>
        LET box  == Parts(hingeBoxJscad)
            lid  == Parts(hingeLidJscad)
            R    == params.hingeDiameter \div 2
            seat == params.height \div 2 + params.wallThickness
            axis == <<params.depth \div 2 + R, seat + R - R \div 2>>
        IN  \A i \in 1..Len(lid) :
                /\ AxesYZ(lid[i], seat) = {axis}
                /\ AxesYZ(box[2 * i - 1], 0) = {axis}
                /\ AxesYZ(box[2 * i], 0) = {axis}

C15_Witness ==
    /\ HingesRan /\ params.hingeCount = 3
    /\ params.hingeDiameter = 6 * MM + MM \div 2
    /\ AxesYZ(Parts(hingeLidJscad)[3], 0) = {<<30 * MM + 3250, 1625>>}

\* C16: within one hinge position xC, with knuckle width K = hingeDiameter,
\* the lid knuckle occupies X in [xC - K/2, xC + K/2] and the two box
\* knuckles are centred at xC - (K + 0.2) and xC + (K + 0.2), so each box
\* knuckle is separated from the lid knuckle by exactly the fixed gap of 0.2
\* and never overlaps it.
C16_KnuckleGap ==
    HingesRan =>
        LET box == Parts(hingeBoxJscad)
            lid == Parts(hingeLidJscad)
            K   == params.hingeDiameter
            xs  == ClaimedCentres(params.hingeCount, params.width)
        IN  \A i \in 1..Len(xs) :
                LET m == Extent(lid[i])
                    l == Extent(box[2 * i - 1])
                    r == Extent(box[2 * i])
                IN  /\ m.lo[1] = xs[i] - K \div 2 /\ m.hi[1] = xs[i] + K \div 2
                    /\ CentreX(box[2 * i - 1]) = xs[i] - (K + 200)
                    /\ CentreX(box[2 * i]) = xs[i] + (K + 200)
                    /\ l.hi[1] - l.lo[1] = K /\ r.hi[1] - r.lo[1] = K
                    /\ m.lo[1] - l.hi[1] = 200
                    /\ r.lo[1] - m.hi[1] = 200

C16_Witness ==
    /\ HingesRan /\ params.hingeCount = 1 /\ params.hingeDiameter = 14 * MM
    /\ Extent(Parts(hingeLidJscad)[1]).hi[1] = 7 * MM
    /\ Extent(Parts(hingeBoxJscad)[2]).lo[1] = 7 * MM + 200

\* A solid built without any subtraction
RECURSIVE NoSubtract(_)
NoSubtract(s) ==
    CASE s.op \in {"cylinder", "cuboid", "prism"} -> TRUE
      [] s.op \in {"translate", "rotateY90", "mirrorX"} -> NoSubtract(s.of)
      [] s.op = "union" -> NoSubtract(s.a) /\ NoSubtract(s.b)
      [] s.op = "subtract" -> FALSE

\* The radius of the bore of a knuckle: the thinnest of its cylinders
BoreRadius(s) == MinOf({l.radius : l \in CylindersOf(s)})

\* C17: generateHingePins returns one solid cylinder per hinge position whose
\* radius hingePinDiameter/2 - 0.15 is strictly smaller than the knuckle bore
\* radius hingePinDiameter/2, and whose length 3*K + 2*0.2 + 4 covers the
\* X-span of all three knuckles of that hinge position with an overhang of 2
\* at each end.
C17_PinFitsAndSpans ==
    HingesRan =>
        LET box == Parts(hingeBoxJscad)
            lid == Parts(hingeLidJscad)
            pin == Parts(hingePinJscad)
            K   == params.hingeDiameter
        IN  /\ Len(pin) = params.hingeCount
            /\ \A i \in 1..Len(pin) :
                  LET three == {box[2 * i - 1], lid[i], box[2 * i]}
                      from  == MinOf({Extent(k).lo[1] : k \in three})
                      to    == MaxOf({Extent(k).hi[1] : k \in three})
                  IN  /\ NoSubtract(pin[i])
                      /\ Cardinality(CylindersOf(pin[i])) = 1
                      /\ \A l \in CylindersOf(pin[i]) :
                            /\ l.axis = "x"
                            /\ l.radius = params.hingePinDiameter \div 2 - 150
                            /\ l.radius > 0
                            /\ \A k \in three :
                                  /\ BoreRadius(k) = params.hingePinDiameter \div 2
                                  /\ l.radius < BoreRadius(k)
                            /\ l.height = 3 * K + 2 * 200 + 4 * MM
                      /\ Extent(pin[i]).lo[1] = from - 2 * MM
                      /\ Extent(pin[i]).hi[1] = to + 2 * MM

C17_Witness ==
    /\ HingesRan /\ params.hingeCount = 2 /\ params.hingeDiameter = 6 * MM
    /\ params.hingePinDiameter = MM + MM \div 2
    /\ \E l \in CylindersOf(Parts(hingePinJscad)[2]) :
          l.radius = 600 /\ l.height = 22 * MM + 400

-----------------------------------------------------------------------------
(* Claims about the merging of the text prisms                             *)

\* The prisms the rasterizer pushed for the surface it acquired
RunsOf(cv) == scanRows(cv, params.width, params.depth, params.lidTextDepth, 0)

\* The smallest k with 2^k >= n
RECURSIVE CeilLog2(_)
CeilLog2(n) == IF n <= 1 THEN 0 ELSE 1 + CeilLog2((n + 1) \div 2)

\* The number of unions above the first prism of a merged solid: one for
\* every round, since the first entry is paired in every round
RECURSIVE RoundsOf(_)
RoundsOf(s) == IF s.op = "union" THEN 1 + RoundsOf(s.a) ELSE 0

RECURSIVE Pow2(_)
Pow2(k) == IF k = 0 THEN 1 ELSE 2 * Pow2(k - 1)

\* The solid that k rounds of pairing adjacent entries build from s, written
\* from the top: the first 2^(k-1) entries against the rest
RECURSIVE PairedTree(_, _)
PairedTree(s, k) ==
    IF k = 0 THEN s[1]
    ELSE IF Len(s) <= Pow2(k - 1) THEN PairedTree(s, k - 1)
    ELSE Union(PairedTree(SubSeq(s, 1, Pow2(k - 1)), k - 1),
               PairedTree(SubSeq(s, Pow2(k - 1) + 1, Len(s)), k - 1))

Merged == textGeom # NotRun /\ canvas # NoCanvas /\ Len(RunsOf(canvas)) >= 2

\* C18: merging N >= 2 text prisms, the tree reduction pairs adjacent entries
\* each round (an odd last entry carried over unchanged), terminates, and
\* performs exactly ceil(log2 N) composition rounds, never N-1; the final
\* solid contains every one of the N prisms exactly once.
C18_LogRoundsNeverLinear ==
    Merged =>
        LET runs == RunsOf(canvas)
            N    == Len(runs)
        IN  /\ textGeom = PairedTree(runs, CeilLog2(N))
            /\ RoundsOf(textGeom) = CeilLog2(N)
            /\ RoundsOf(textGeom) # N - 1
            /\ Parts(textGeom) = runs

\* C18 amended: the same with the number of rounds, ceil(log2 N), below N-1
\* from N = 4 on (for N = 2 and N = 3 it is N-1).
C18_LogRounds ==
    Merged =>
        LET runs == RunsOf(canvas)
            N    == Len(runs)
        IN  /\ textGeom = PairedTree(runs, CeilLog2(N))
            /\ RoundsOf(textGeom) = CeilLog2(N)
            /\ N >= 4 => RoundsOf(textGeom) < N - 1
            /\ N <= 3 => RoundsOf(textGeom) = N - 1
            /\ Parts(textGeom) = runs

C18_Witness ==
    /\ Merged /\ Len(RunsOf(canvas)) = 7
    /\ RoundsOf(textGeom) = 3
    /\ textGeom.b.op = "union" /\ textGeom.b.b.op = "translate"

-----------------------------------------------------------------------------
(* Claims about the runs of the rasterizer                                 *)

\* A pixel of the surface whose red channel is below the threshold 128
Dark(cv, row, col) ==
    /\ 0 <= col /\ col < cv.width
    /\ cv.pixels[row * cv.width + col] < 128

\* The maximal contiguous spans of dark pixels as <<row, start, length>>
DarkSpans(cv) ==
    LET starts == {rc \in (0..(cv.height - 1)) \X (0..(cv.width - 1)) :
                      Dark(cv, rc[1], rc[2]) /\ ~Dark(cv, rc[1], rc[2] - 1)}
        len(rc) == CHOOSE L \in 1..(cv.width - rc[2]) :
                      /\ \A c \in rc[2]..(rc[2] + L - 1) : Dark(cv, rc[1], c)
                      /\ ~Dark(cv, rc[1], rc[2] + L)
    IN  {<<rc[1], rc[2], len(rc)>> : rc \in starts}

\* The prisms of what the rasterizer returned
PrismsOf(g) == IF g = Null THEN {} ELSE SeqSet(Parts(g))
PrismCount(g) == IF g = Null THEN 0 ELSE Len(Parts(g))

\* The raster row a prism lies in, and the pixel columns [from, to) it covers
PrismRow(b) == (2 * (params.depth \div 2 - b.by[2]) - MM \div 2) \div MM
PrismFrom(b) == (2 * (b.by[1] + params.width \div 2) - b.of.size[1]) \div MM
PrismTo(b) == (2 * (b.by[1] + params.width \div 2) + b.of.size[1]) \div MM

\* C19: for every raster row, the prisms textToJscadGeometry emits correspond
\* exactly to the maximal contiguous spans of dark pixels (pixels below the
\* fixed threshold): every dark pixel lies in exactly one run, no light pixel
\* lies in any run, no two runs of a row touch, and a run that reaches the
\* last column of the row is still emitted; each run of length L starting at
\* column s has width L/2 mm and is centred at X = (s + L/2)/2 - lidWidth/2.
C19_RunsAreDarkSpans ==
    (textGeom # NotRun /\ canvas # NoCanvas) =>
        LET prisms == PrismsOf(textGeom)
            spans  == DarkSpans(canvas)
            In(b, row, col) == PrismRow(b) = row /\ PrismFrom(b) <= col /\ col < PrismTo(b)
        IN  /\ PrismCount(textGeom) = Cardinality(spans)
            /\ \A row \in 0..(canvas.height - 1) : \A col \in 0..(canvas.width - 1) :
                  Cardinality({b \in prisms : In(b, row, col)})
                    = IF Dark(canvas, row, col) THEN 1 ELSE 0
            /\ \A a \in prisms : \A b \in prisms :
                  (a # b /\ PrismRow(a) = PrismRow(b)) =>
                      (PrismTo(a) < PrismFrom(b) \/ PrismTo(b) < PrismFrom(a))
            /\ \A sp \in spans : \E b \in prisms :
                  /\ PrismRow(b) = sp[1]
                  /\ b.of.size[1] = (sp[3] * MM) \div 2
                  /\ b.by[1] = ((2 * sp[2] + sp[3]) * MM) \div 4 - params.width \div 2

\* A run that reaches the last column of its row, and its prism
C19_Witness ==
    /\ textGeom # NotRun /\ canvas # NoCanvas
    /\ <<0, canvas.width - 2, 2>> \in DarkSpans(canvas)
    /\ \E b \in PrismsOf(textGeom) : PrismRow(b) = 0 /\ PrismTo(b) = canvas.width

-----------------------------------------------------------------------------
(* SpecMesh: the serializer and the render adapter applied to one mesh     *)

\* Polygon lists: none; one quad on the 0.5 mm grid; a two-vertex polygon
\* between a triangle and a pentagon off that grid; a triangle with two
\* coincident vertices, a triangle with three collinear vertices and a proper
\* triangle; a generated box and a generated lid
MeshPolygonLists ==
    { <<>>,
      << <<<<-1250, 0, 0>>, <<-1250, 0, 0>>, <<2 * MM, 20, 0>>>>,
         <<<<0, 0, 0>>, <<300, 600, -900>>, <<-100, -200, 300>>>>,
         <<<<0, 0, 0>>, <<12 * MM, 0, 0>>, <<0, 0, 10 * MM + 5>>>> >>,
      << <<<<0, 0, 0>>, <<MM \div 2, 0, 0>>, <<MM \div 2, MM \div 2, 0>>, <<0, MM \div 2, 0>>>> >>,
      << <<<<0, 0, 0>>, <<300, 0, 0>>, <<300, 700, 0>>>>,
         <<<<0, 0, 0>>, <<300, 0, 0>>>>,
         <<<<0, 0, 100>>, <<300, 0, 100>>, <<400, 200, 100>>, <<300, 700, 100>>,
           <<0, 700, 100>>>> >>,
      generateBox([DEFAULTS EXCEPT !.width = 10 * MM, !.depth = 10 * MM,
                                   !.height = 10 * MM, !.wallThickness = 1 * MM]).polygons,
      generateFlatLid([DEFAULTS EXCEPT !.width = 10 * MM, !.depth = 10 * MM,
                                       !.height = 10 * MM, !.wallThickness = 1 * MM,
                                       !.includeLid = TRUE]).polygons }

\* Residual transforms (column-major): none (no entries), the identity, a translation, a
\* quarter turn about Y with a translation, a shear with unit diagonal and no
\* translation, and an array of the wrong length
MeshTransforms ==
    { <<>>,
      <<1, 0, 0, 0,  0, 1, 0, 0,  0, 0, 1, 0,  0, 0, 0, 1>>,
      <<1, 0, 0, 0,  0, 1, 0, 0,  0, 0, 1, 0,  0, 0, -2 * MM, 1>>,
      <<0, 0, -1, 0,  0, 1, 0, 0,  1, 0, 0, 0,  300, 0, MM, 1>>,
      <<1, 0, 0, 0,  1, 1, 0, 0,  0, 0, 1, 0,  0, 0, 0, 1>>,
      <<1, 0, 0, 0,  0, 1, 0, 0,  0, 0, 1, 0,  0, 0, -2 * MM>> }

MeshSpace ==
    {[polygons |-> ps, transforms |-> m] : ps \in MeshPolygonLists, m \in MeshTransforms}
      \cup {generateBox(DEFAULTS)}

InitMesh ==
    /\ params = DEFAULTS
    /\ boxPolys = NotRun /\ flatLid = NotRun /\ csgLid = NotRun
    /\ TextUnused
    /\ boxJscad \in MeshSpace
    /\ geometry = Null /\ lidGeometry = Null
    /\ hingeBoxGeometry = Null /\ hingeLidGeometry = Null
    /\ lidJscad = Null
    /\ hingeBoxJscad = Null /\ hingeLidJscad = Null /\ hingePinJscad = Null
    /\ effect = "done"
    /\ ExportUnused /\ CallsUnused

JscadToTriangles ==
    /\ triangles = NotRun
    /\ triangles' = [returned |-> jscadToTriangles(boxJscad)]
    /\ UNCHANGED <<kernelVars, textVars, appVars, stl, downloads, callVars>>

JscadToThreeGeometry ==
    /\ geometry = Null
    /\ geometry' = jscadToThreeGeometry(boxJscad)
    /\ UNCHANGED <<kernelVars, textVars, lidGeometry, hingeBoxGeometry, hingeLidGeometry,
                   boxJscad, lidJscad, hingeBoxJscad, hingeLidJscad, hingePinJscad, effect,
                   exportVars, callVars>>

\* exportJscadToSTL line 4: const stl = trianglesToSTL(triangles)
TrianglesToSTL ==
    /\ triangles # NotRun /\ stl = NotRun
    /\ stl' = [returned |-> trianglesToSTL(triangles.returned)]
    /\ UNCHANGED <<kernelVars, textVars, appVars, triangles, downloads, callVars>>

\* exportJscadToSTL line 5: downloadSTL(stl, filename), filename = 'box.stl'
DownloadSTL ==
    /\ stl # NotRun /\ downloads = <<>>
    /\ downloads' = downloadSTL(downloads, stl.returned, <<"box", ".stl">>)
    /\ UNCHANGED <<kernelVars, textVars, appVars, triangles, stl, callVars>>

NextMesh == JscadToTriangles \/ JscadToThreeGeometry \/ TrianglesToSTL \/ DownloadSTL

SpecMesh == InitMesh /\ [][NextMesh]_vars

-----------------------------------------------------------------------------
(* Claims about the two triangulations                                     *)

\* The triangles of a display geometry: for every three entries of the
\* index, the three numbers stored for each of the three vertices
RenderTriangles(geo) ==
    [t \in 1..(Len(geo.index) \div 3) |->
        [j \in 1..3 |-> [c \in 1..3 |-> geo.position[3 * geo.index[3 * (t - 1) + j] + c]]]]

\* The affine map of a column-major 4x4 matrix
Affine(m, v) ==
    [r \in 1..3 |-> m[r] * v[1] + m[4 + r] * v[2] + m[8 + r] * v[3] + m[12 + r]]

\* The fan (v0, vi, vi+1), i = 1..n-2, of every polygon with n >= 3 vertices,
\* in order, with the residual transform applied when there is one
FanOf(mesh) ==
    LET m == TransformsOf(mesh)
        T(v) == IF hasTransform(m) THEN Affine(m, v) ELSE v
    IN  Flatten([k \in 1..Len(mesh.polygons) |->
            LET q == mesh.polygons[k]
            IN  IF Len(q) < 3 THEN <<>>
                ELSE [i \in 1..(Len(q) - 2) |-> <<T(q[1]), T(q[i + 1]), T(q[i + 2])>>]])

BothConverted == triangles # NotRun /\ geometry # Null

\* C20: the serializer (jscadToTriangles) and the render adapter
\* (jscadToThreeGeometry) fan-triangulate the same mesh identically: every
\* polygon with n >= 3 vertices yields exactly the n - 2 triangles
\* (v0, vi, vi+1) for i = 1..n-2 in winding order, polygons with fewer than 3
\* vertices yield none, both apply the same residual 4x4 transform to every
\* vertex under the same has-transform test, and so both produce the same
\* triangles with the same vertex positions in the same order.
C20_SameTriangles ==
    BothConverted =>
        LET fan == FanOf(boxJscad)
            tri == triangles.returned
            ren == RenderTriangles(geometry)
        IN  /\ Len(tri) = Len(fan) /\ Len(ren) = Len(fan)
            /\ \A t \in 1..Len(fan) :
                  /\ <<tri[t].v1, tri[t].v2, tri[t].v3>> = fan[t]
                  /\ \A j \in 1..3 : \A c \in 1..3 :
                        ren[t][j][c].near = fan[t][j][c] /\ ren[t][j][c].exact

\* C20 amended: the same, the positions of the render adapter being those of
\* the serializer rounded to 32-bit floats.
C20_SameTrianglesRounded ==
    BothConverted =>
        LET fan == FanOf(boxJscad)
            tri == triangles.returned
            ren == RenderTriangles(geometry)
        IN  /\ Len(tri) = Len(fan) /\ Len(ren) = Len(fan)
            /\ \A t \in 1..Len(fan) :
                  /\ <<tri[t].v1, tri[t].v2, tri[t].v3>> = fan[t]
                  /\ \A j \in 1..3 : \A c \in 1..3 :
                        ren[t][j][c] = Float32(fan[t][j][c])

\* A transformed mesh with a skipped two-vertex polygon before a pentagon
C20_Witness ==
    /\ BothConverted
    /\ hasTransform(TransformsOf(boxJscad))
    /\ \E k \in 1..Len(boxJscad.polygons) : Len(boxJscad.polygons[k]) = 2
    /\ \E k \in 1..Len(boxJscad.polygons) : Len(boxJscad.polygons[k]) = 5
    /\ Len(triangles.returned) = 4

-----------------------------------------------------------------------------
(* Claims about the interchange text                                       *)

DigitValue(ch) == CHOOSE d \in 0..9 : DigitChars[d + 1] = ch

\* The natural number a sequence of digits writes
RECURSIVE DigitsValue(_)
DigitsValue(ds) ==
    IF ds = <<>> THEN 0
    ELSE 10 * DigitsValue(SubSeq(ds, 1, Len(ds) - 1)) + DigitValue(ds[Len(ds)])

\* The place values of the first three digits after the point, in length units
FractionPlaces == <<MM \div 10, MM \div 100, MM \div 1000>>

\* The length a decimal numeral denotes: an optional sign, digits, and
\* optionally a point and up to three digits after it
ParseNumber(chars) ==
    LET neg  == chars # <<>> /\ chars[1] = "-"
        body == IF neg THEN Tail(chars) ELSE chars
        dots == {i \in 1..Len(body) : body[i] = "."}
        cut  == IF dots = {} THEN Len(body) + 1 ELSE CHOOSE i \in dots : TRUE
        int  == DigitsValue(SubSeq(body, 1, cut - 1))
        frac == SubSeq(body, cut + 1, Len(body))
        val  == int * MM
                  + SumSeq([k \in 1..Len(frac) |-> DigitValue(frac[k]) * FractionPlaces[k]])
    IN  IF neg THEN -val ELSE val

\* The triangles a reader finds in a text: the vertex lines between the
\* header and the footer, three by three, each with its three numbers read
Reparsed(text) ==
    LET vs == SelectSeq(text, LAMBDA l : l.words = <<"vertex">>)
    IN  [t \in 1..(Len(vs) \div 3) |->
            [j \in 1..3 |-> [c \in 1..3 |-> ParseNumber(vs[3 * (t - 1) + j].nums[c])]]]

Serialized == triangles # NotRun /\ stl # NotRun

\* The lines of the facet record of triangle t of a text
FacetRecord(text, t) == SubSeq(text, 7 * (t - 1) + 2, 7 * t + 1)

\* C21: for any mesh, the text produced by trianglesToSTL is the line
\* 'solid <name>', then for each triangle of the triangulation in order
\* exactly one facet record (facet normal, outer loop, exactly three vertex
\* lines carrying v1, v2, v3 in that order, endloop, endfacet), then
\* 'endsolid <name>' with the same name; re-parsing the text yields the same
\* triangle count and the same vertex positions as the pre-serialization
\* triangulation.
C21_TextRoundTrip ==
    Serialized =>
        LET tris == triangles.returned
            text == stl.returned
            back == Reparsed(text)
        IN  /\ Len(text) = 7 * Len(tris) + 2
            /\ text[1].words[1] = "solid" /\ text[Len(text)].words[1] = "endsolid"
            /\ Len(text[1].words) = 2 /\ Len(text[Len(text)].words) = 2
            /\ text[1].words[2] = text[Len(text)].words[2]
            /\ \A t \in 1..Len(tris) :
                  LET f == FacetRecord(text, t)
                  IN  /\ [i \in 1..7 |-> f[i].words]
                            = << <<"facet", "normal">>, <<"outer", "loop">>, <<"vertex">>,
                                 <<"vertex">>, <<"vertex">>, <<"endloop">>, <<"endfacet">> >>
                      /\ Len(f[1].nums) = 3
                      /\ \A i \in 3..5 : Len(f[i].nums) = 3
                      /\ \A i \in {2, 6, 7} : f[i].nums = <<>>
                      /\ [c \in 1..3 |-> ParseNumber(f[3].nums[c])] = tris[t].v1
                      /\ [c \in 1..3 |-> ParseNumber(f[4].nums[c])] = tris[t].v2
                      /\ [c \in 1..3 |-> ParseNumber(f[5].nums[c])] = tris[t].v3
            /\ Len(back) = Len(tris)
            /\ \A t \in 1..Len(tris) : back[t] = <<tris[t].v1, tris[t].v2, tris[t].v3>>

\* A text of several facets that writes a negative length with a fraction
\* (-1.25) and a length with a zero after the point (10.005)
C21_Witness ==
    /\ Serialized
    /\ Len(triangles.returned) >= 3
    /\ \E i \in 1..Len(stl.returned) :
          /\ stl.returned[i].words = <<"vertex">>
          /\ stl.returned[i].nums[1] = <<"-", "1", ".", "2", "5">>
    /\ \E i \in 1..Len(stl.returned) :
          /\ stl.returned[i].words = <<"vertex">>
          /\ stl.returned[i].nums[3] = <<"1", "0", ".", "0", "0", "5">>

-----------------------------------------------------------------------------
(* Claims about the normal of a degenerate triangle                        *)

Edge(a, b) == [k \in 1..3 |-> b[k] - a[k]]

Coincident(t) == t.v1 = t.v2 \/ t.v1 = t.v3 \/ t.v2 = t.v3

\* Three vertices on one line: the directions of the two edges from v1 are
\* equal or opposite
Collinear(t) ==
    LET d1 == Reduced(Edge(t.v1, t.v2))
        d2 == Reduced(Edge(t.v1, t.v3))
    IN  d1 = d2 \/ d1 = [k \in 1..3 |-> -d2[k]]

Degenerate(t) == Coincident(t) \/ Collinear(t)

\* C22: for a degenerate triangle (two coincident vertices or three collinear
\* vertices, cross product of the two edge vectors equal to zero) the
\* serializer still emits the facet with its three vertices and writes the
\* zero vector (0, 0, 0) as its normal; it never divides by the zero length
\* and never drops the facet.
C22_DegenerateZeroNormal ==
    Serialized =>
        LET tris == triangles.returned
            text == stl.returned
        IN  /\ Len(text) = 7 * Len(tris) + 2
            /\ \A t \in 1..Len(tris) :
                  Degenerate(tris[t]) =>
                      LET f == FacetRecord(text, t)
                      IN  /\ f[1].words = <<"facet", "normal">>
                          /\ f[1].nums = << <<"0">>, <<"0">>, <<"0">> >>
                          /\ \A i \in 3..5 : f[i].words = <<"vertex">>
                          /\ Reparsed(f) = << <<tris[t].v1, tris[t].v2, tris[t].v3>> >>

\* A text holding a triangle with two coincident vertices and a triangle
\* with three distinct collinear vertices
C22_Witness ==
    /\ Serialized
    /\ \E t \in 1..Len(triangles.returned) : Coincident(triangles.returned[t])
    /\ \E t \in 1..Len(triangles.returned) :
          /\ ~Coincident(triangles.returned[t])
          /\ Collinear(triangles.returned[t])
          /\ FacetRecord(stl.returned, t)[1].nums = << <<"0">>, <<"0">>, <<"0">> >>

-----------------------------------------------------------------------------
(* SpecExport: the App mounted with a saved Parameter Record, its          *)
(* regeneration effect and its three export handlers                       *)

MaxDownloads == 2

ExportWalls == {1 * MM}
ExportTexts == {<<>>, <<"a">>}

\* Records loadSavedParams can return
ExportParamSpace ==
    {[DEFAULTS EXCEPT !.width = 10 * MM, !.depth = 10 * MM, !.height = 10 * MM,
                      !.wallThickness = wt, !.includeLid = il, !.includeHinge = ih,
                      !.hingeCount = n, !.lidText = t] :
        wt \in ExportWalls, il \in BOOLEAN, ih \in BOOLEAN, n \in {1, 2}, t \in ExportTexts}

InitExport ==
    /\ params \in ExportParamSpace
    /\ boxPolys = NotRun /\ flatLid = NotRun /\ csgLid = NotRun
    /\ TextUnused
    /\ geometry = Null /\ lidGeometry = Null
    /\ hingeBoxGeometry = Null /\ hingeLidGeometry = Null
    /\ boxJscad = Null /\ lidJscad = Null
    /\ hingeBoxJscad = Null /\ hingeLidJscad = Null /\ hingePinJscad = Null
    /\ effect = "pending"
    /\ ExportUnused /\ CallsUnused

handleExport_withPins ==
    /\ effect # "pending"
    /\ Len(downloads) < MaxDownloads
    /\ downloads' =
          IF boxJscad = Null THEN downloads
          ELSE IF hingeBoxJscad # Null
          THEN exportMultipleJscadToSTL(downloads, <<boxJscad, hingeBoxJscad, hingePinJscad>>,
                                        exportFilename("box_", params))
          ELSE exportJscadToSTL(downloads, boxJscad, exportFilename("box_", params))
    /\ UNCHANGED <<kernelVars, textVars, appVars, triangles, stl, callVars>>

\* The body of handleExport: nothing without a box; the box with its knuckles
\* when there are knuckles, else the box alone
handleExportBody(files) ==
    IF boxJscad = Null THEN files
    ELSE IF hingeBoxJscad # Null
    THEN exportMultipleJscadToSTL(files, <<boxJscad, hingeBoxJscad>>,
                                  exportFilename("box_", params))
    ELSE exportJscadToSTL(files, boxJscad, exportFilename("box_", params))

\* handleExport, in a render whose effect has run
handleExport ==
    /\ effect # "pending"
    /\ Len(downloads) < MaxDownloads
    /\ downloads' = handleExportBody(downloads)
    /\ UNCHANGED <<kernelVars, textVars, appVars, triangles, stl, callVars>>

\* handleExportLid
handleExportLid ==
    /\ effect # "pending"
    /\ Len(downloads) < MaxDownloads
    /\ downloads' =
          IF lidJscad = Null THEN downloads
          ELSE IF hingeLidJscad # Null
          THEN exportMultipleJscadToSTL(downloads, <<lidJscad, hingeLidJscad>>,
                                        exportFilename("lid_", params))
          ELSE exportJscadToSTL(downloads, lidJscad, exportFilename("lid_", params))
    /\ UNCHANGED <<kernelVars, textVars, appVars, triangles, stl, callVars>>

\* handleExportPin
handleExportPin ==
    /\ effect # "pending"
    /\ Len(downloads) < MaxDownloads
    /\ downloads' =
          IF hingePinJscad # Null
          THEN exportJscadToSTL(downloads, hingePinJscad, exportFilename("hinge_pin_", params))
          ELSE downloads
    /\ UNCHANGED <<kernelVars, textVars, appVars, triangles, stl, callVars>>

NextExport == RunEffect \/ handleExport \/ handleExportLid \/ handleExportPin

SpecExport == InitExport /\ [][NextExport]_vars

-----------------------------------------------------------------------------
(* Claims about the exported files                                         *)

\* The vertex positions of the triangles the serializer makes of a geometry
PositionsOf(jscadGeom) ==
    LET tris == jscadToTriangles(jscadGeom)
    IN  [t \in 1..Len(tris) |-> <<tris[t].v1, tris[t].v2, tris[t].v3>>]

\* The number of lines of a text that begin with a word
LinesWith(text, word) == Cardinality({i \in 1..Len(text) : text[i].words[1] = word})

\* C23: when box-side hinge knuckles exist, exporting the box writes one file
\* whose single named solid (one header, one footer) contains the facets of
\* the box and of its knuckles; likewise the lid with the lid-side knuckles;
\* when no knuckles exist the file contains the part alone; hinge pins are
\* never included in the box or lid file and are written only by the
\* separate pin export, which does nothing when no pin geometry exists.
C23_ExportedSolids ==
    [][\/ downloads' = downloads
       \/ /\ Len(downloads') = Len(downloads) + 1
          /\ SubSeq(downloads', 1, Len(downloads)) = downloads
          /\ LET file   == downloads'[Len(downloads')]
                 facets == Reparsed(file.text)
                 pins   == IF hingePinJscad = Null THEN {} ELSE SeqSet(PositionsOf(hingePinJscad))
             IN  /\ LinesWith(file.text, "solid") = 1
                 /\ LinesWith(file.text, "endsolid") = 1
                 /\ file.text[1].words[1] = "solid"
                 /\ file.text[Len(file.text)].words[1] = "endsolid"
                 /\ file.filename[1] \in {"box_", "lid_", "hinge_pin_"}
                 /\ file.filename[1] = "box_" =>
                       /\ facets = PositionsOf(boxJscad)
                                     \o (IF hingeBoxJscad # Null
                                         THEN PositionsOf(hingeBoxJscad) ELSE <<>>)
                       /\ SeqSet(facets) \cap pins = {}
                 /\ file.filename[1] = "lid_" =>
                       /\ facets = PositionsOf(lidJscad)
                                     \o (IF hingeLidJscad # Null
                                         THEN PositionsOf(hingeLidJscad) ELSE <<>>)
                       /\ SeqSet(facets) \cap pins = {}
                 /\ file.filename[1] = "hinge_pin_" =>
                       /\ hingePinJscad # Null
                       /\ facets = PositionsOf(hingePinJscad)]_vars

\* The box with its knuckles and the pins were exported, in two files
C23_Witness ==
    /\ Len(downloads) = 2
    /\ hingeBoxJscad # Null /\ hingePinJscad # Null
    /\ downloads[1].filename[1] = "box_"
    /\ Len(Reparsed(downloads[1].text))
          = Len(PositionsOf(boxJscad)) + Len(PositionsOf(hingeBoxJscad))
    /\ downloads[2].filename[1] = "hinge_pin_"
    /\ Len(Reparsed(downloads[2].text)) > 0

-----------------------------------------------------------------------------
(* SpecCalls: the direct builders and the hinge generators called one      *)
(* after another on one Parameter Record                                   *)

MaxCalls == 2

Generators ==
    {"generateBox", "generateFlatLid", "generateBoxHingeKnuckles",
     "generateLidHingeKnuckles", "generateHingePins"}

CallDivisions == {<<>>, <<25, 75>>, <<75, 25>>}

CallParamSpace ==
    {[DEFAULTS EXCEPT !.width = 20 * MM, !.depth = 20 * MM, !.height = 10 * MM,
                      !.wallThickness = 1 * MM, !.includeLid = TRUE, !.includeHinge = TRUE,
                      !.divisionsX = dx, !.divisionsZ = dz, !.hingeCount = n] :
        dx \in CallDivisions, dz \in CallDivisions, n \in 1..3}

InitCalls ==
    /\ params \in CallParamSpace
    /\ boxPolys = NotRun /\ flatLid = NotRun /\ csgLid = NotRun
    /\ TextUnused /\ AppUnused /\ ExportUnused /\ CallsUnused

\* What a generator returns
returnedBy(fn, p) ==
    CASE fn = "generateBox" -> generateBox(p)
      [] fn = "generateFlatLid" -> generateFlatLid(p)
      [] fn = "generateBoxHingeKnuckles" -> generateBoxHingeKnuckles(p)
      [] fn = "generateLidHingeKnuckles" -> generateLidHingeKnuckles(p)
      [] fn = "generateHingePins" -> generateHingePins(p)

\* What the Parameter Record holds after a generator has run: the builders
\* touch divisionsX and divisionsZ only through [...list].sort, the hinge
\* generators read numbers only
recordAfter(fn, p) ==
    IF fn \in {"generateBox", "generateFlatLid"}
    THEN [p EXCEPT !.divisionsX = sortedCopy(p.divisionsX).list,
                   !.divisionsZ = sortedCopy(p.divisionsZ).list]
    ELSE p

\* One call: the polygon list (const polys = []) or the solid is allocated by
\* the call; allocations are numbered in order
Call(fn) ==
    /\ Len(calls) < MaxCalls
    /\ calls' = Append(calls, [fn |-> fn, given |-> params, list |-> Len(calls) + 1,
                               returned |-> returnedBy(fn, params)])
    /\ params' = recordAfter(fn, params)
    /\ UNCHANGED <<boxPolys, flatLid, csgLid, textVars, appVars, exportVars>>

NextCalls == \E fn \in Generators : Call(fn)

SpecCalls == InitCalls /\ [][NextCalls]_vars

-----------------------------------------------------------------------------
(* Claims about repeated calls                                             *)

-----------------------------------------------------------------------------
(* Claims about the winding of the faces                                   *)

\* The Parameter Record of the same part drawn k times larger
ScaledRecord(p, k) ==
    [p EXCEPT !.width = k * @, !.depth = k * @, !.height = k * @,
              !.wallThickness = k * @, !.lidHeight = k * @, !.lidTolerance = k * @,
              !.chamferSize = k * @]

\* The right-hand-rule normal of a polygon, from its first three vertices,
\* in lowest terms
WindingNormal(q) ==
    LET e1 == Reduced(Edge(q[1], q[2]))
        e2 == Reduced(Edge(q[1], q[3]))
    IN  Reduced(<<e1[2] * e2[3] - e1[3] * e2[2],
                  e1[3] * e2[1] - e1[1] * e2[3],
                  e1[1] * e2[2] - e1[2] * e2[1]>>)

\* The sum of the vertices of a polygon: its centroid drawn Len(q) times larger
VertexSum(q) == [c \in 1..3 |-> SumSeq([i \in 1..Len(q) |-> q[i][c]])]

\* The footprint of box and lid: the W x D rectangle without its four
\* corners cut at the effective chamfer
InFootprint(p, x, y) ==
    LET c == Min4(p.chamferSize, p.wallThickness, p.width \div 4, p.depth \div 4)
    IN  /\ 2 * Abs(x) < p.width /\ 2 * Abs(y) < p.depth
        /\ 2 * Abs(x) + 2 * Abs(y) < p.width + p.depth - 2 * c

\* The material of the box: the footprint over the height, without the
\* cavity above the floor between the inner walls and the divider bands
InBoxSolid(p, q) ==
    LET wt == p.wallThickness
        iw == p.width - 2 * wt
        id == p.depth - 2 * wt
        xs == {-(iw \div 2) + (p.divisionsX[k] * iw) \div 100 : k \in 1..Len(p.divisionsX)}
        ys == {-(id \div 2) + (p.divisionsZ[k] * id) \div 100 : k \in 1..Len(p.divisionsZ)}
    IN  /\ InFootprint(p, q[1], q[2])
        /\ 2 * Abs(q[3]) < p.height
        /\ ~(/\ 2 * q[3] > -p.height + 2 * wt
             /\ 2 * Abs(q[1]) < iw /\ 2 * Abs(q[2]) < id
             /\ \A xd \in xs : 2 * Abs(q[1] - xd) > wt
             /\ \A yd \in ys : 2 * Abs(q[2] - yd) > wt)

\* The material of the flat lid: the footprint from the cap bottom up to the
\* top of the grid cell the point is in
InLidSolid(p, q) ==
    LET X == xB(p)
        Y == yB(p)
        i == CHOOSE a \in 1..(Len(X) - 1) : X[a] <= q[1] /\ q[1] <= X[a + 1]
        j == CHOOSE b \in 1..(Len(Y) - 1) : Y[b] <= q[2] /\ q[2] <= Y[b + 1]
    IN  /\ InFootprint(p, q[1], q[2])
        /\ -p.wallThickness < q[3]
        /\ q[3] < cellTop(p, X, Y, i, j)

\* A polygon is wound counter-clockwise seen from outside: from its centroid
\* a short step along its normal leaves the material and a short step against
\* it enters the material
BoxFaceOutward(p, q) ==
    LET k == Len(q)
        n == WindingNormal(q)
        m == VertexSum(q)
    IN  /\ ~InBoxSolid(ScaledRecord(p, k), [c \in 1..3 |-> m[c] + n[c]])
        /\ InBoxSolid(ScaledRecord(p, k), [c \in 1..3 |-> m[c] - n[c]])

LidFaceOutward(p, q) ==
    LET k == Len(q)
        n == WindingNormal(q)
        m == VertexSum(q)
    IN  /\ ~InLidSolid(ScaledRecord(p, k), [c \in 1..3 |-> m[c] + n[c]])
        /\ InLidSolid(ScaledRecord(p, k), [c \in 1..3 |-> m[c] - n[c]])

\* Records whose box has walls, whose divider bands are apart and inside, and
\* whose lid has a lip ring with a hollow
WindingRecord(p) ==
    /\ BoxValid(p)
    /\ BandsDisjointInside(xDivs(p), p.wallThickness, boxIw2(p))
    /\ BandsDisjointInside(yDivs(p), p.wallThickness, boxId2(p))
    /\ flatLiw2(p) > CavityMin /\ flatLid2(p) > CavityMin

\* C25: every polygon emitted by generateBox and generateFlatLid is wound
\* counter-clockwise as seen from outside the solid, so its right-hand-rule
\* normal points outward: faces on the outer bottom plane have normal -Z,
\* faces on top surfaces have normal +Z, side walls point away from the
\* centre; this holds for the corner triangles and for the four diagonal
\* chamfer strips emitted when c > 0 as well as for the quads.
C25_OutwardNormals ==
    WindingRecord(params) =>
        /\ boxPolys # NotRun =>
              \A f \in 1..Len(boxPolys.polygons) :
                  BoxFaceOutward(params, boxPolys.polygons[f])
        /\ flatLid # NotRun =>
              \A f \in 1..Len(flatLid.polygons) :
                  LidFaceOutward(params, flatLid.polygons[f])

-----------------------------------------------------------------------------
(* Claims about the height steps of the flat lid                           *)

\* The polygons of the lid standing on the segment from (x1, y1) to (x2, y2):
\* vertical polygons whose vertices all lie over one end of the segment, with
\* both ends used
FacesOver(polys, x1, y1, x2, y2) ==
    {f \in 1..Len(polys) :
        /\ \A v \in 1..Len(polys[f]) :
              \/ polys[f][v][1] = x1 /\ polys[f][v][2] = y1
              \/ polys[f][v][1] = x2 /\ polys[f][v][2] = y2
        /\ \E v \in 1..Len(polys[f]) : polys[f][v][1] = x1 /\ polys[f][v][2] = y1
        /\ \E v \in 1..Len(polys[f]) : polys[f][v][1] = x2 /\ polys[f][v][2] = y2}

HeightsOf(q) == {q[v][3] : v \in 1..Len(q)}

\* The faces over a shared boundary are right for the tops ta (the cell on
\* the negative side) and tb (the cell on the positive side): none when the
\* tops are equal, otherwise one face from the lower to the higher top whose
\* normal along `axis` points from the taller cell to the lower one
StepRight(polys, faces, ta, tb, axis) ==
    IF ta = tb THEN faces = {}
    ELSE /\ Cardinality(faces) = 1
         /\ \A f \in faces :
               /\ HeightsOf(polys[f]) = {ta, tb}
               /\ WindingNormal(polys[f])
                    = [a \in 1..3 |-> IF a = axis THEN (IF ta > tb THEN 1 ELSE -1) ELSE 0]

StepFacesRight(p, polys) ==
    LET X    == xB(p)
        Y    == yB(p)
        nx   == Len(X) - 1
        ny   == Len(Y) - 1
        c    == flatC(p)
        tops == flatTops(p, X, Y)
    IN  /\ \A i \in 1..(nx - 1), j \in 1..ny :
              ~(isChamferCorner(c, nx, ny, i, j) \/ isChamferCorner(c, nx, ny, i + 1, j))
              => StepRight(polys, FacesOver(polys, X[i + 1], Y[j], X[i + 1], Y[j + 1]),
                           tops[i][j], tops[i + 1][j], 1)
        /\ \A i \in 1..nx, j \in 1..(ny - 1) :
              ~(isChamferCorner(c, nx, ny, i, j) \/ isChamferCorner(c, nx, ny, i, j + 1))
              => StepRight(polys, FacesOver(polys, X[i], Y[j + 1], X[i + 1], Y[j + 1]),
                           tops[i][j], tops[i][j + 1], 2)
        /\ \A i \in 1..nx, j \in 1..ny :
              /\ tops[i][j] \in {0, Min2(p.lidHeight, p.height - p.wallThickness)}
              /\ (i \in {1, nx} \/ j \in {1, ny}) => tops[i][j] = 0

\* C26: generateFlatLid emits exactly one vertical face on the shared boundary
\* of two adjacent grid cells (other than chamfer corner cells) if and only if
\* their top heights differ; the face spans from the lower top to the higher
\* top and its normal points from the taller cell toward the lower cell; no
\* face is emitted between cells of equal height, and every cell top is either
\* 0 or the clamped lip height, with every cell on the outer boundary at 0.
C26_StepFaces ==
    flatLid # NotRun => StepFacesRight(params, flatLid.polygons)

\* The same on the records whose grid starts and ends at the outer edges
C26_WhenGridInsideEdges ==
    (/\ flatLid # NotRun
     /\ xB(params)[1] = -(params.width \div 2)
     /\ xB(params)[Len(xB(params))] = params.width \div 2
     /\ yB(params)[1] = -(params.depth \div 2)
     /\ yB(params)[Len(yB(params))] = params.depth \div 2)
    => StepFacesRight(params, flatLid.polygons)

-----------------------------------------------------------------------------
(* Claims about the breakpoints of the box                                 *)

NonDecreasing(s) == \A k \in 1..(Len(s) - 1) : s[k] <= s[k + 1]

PercentagesInRange(divs) == \A k \in 1..Len(divs) : 1 <= divs[k] /\ divs[k] <= 99

\* Any two percentages are at least 100*wt/inner apart and every percentage
\* is at least 50*wt/inner away from 0 and from 100
PercentagesApart(divs, wt, inner) ==
    /\ \A k \in 1..Len(divs) :
          divs[k] * inner >= 50 * wt /\ (100 - divs[k]) * inner >= 50 * wt
    /\ \A k \in 1..Len(divs) : \A m \in 1..Len(divs) :
          k # m => Abs(divs[k] - divs[m]) * inner >= 100 * wt

BreakpointsNonDecreasing(p) ==
    /\ NonDecreasing(xAll(p)) /\ NonDecreasing(xAllC(p))
    /\ NonDecreasing(yAll(p)) /\ NonDecreasing(yAllC(p))

\* The walls are there and the percentages are in 1..99
BreakpointRecord(p) ==
    /\ p.width > 2 * p.wallThickness /\ p.depth > 2 * p.wallThickness
    /\ PercentagesInRange(p.divisionsX) /\ PercentagesInRange(p.divisionsZ)

\* C27 as stated: for every Parameter Record with W > 2*wt, D > 2*wt and
\* division percentages in 1..99 (in any order), the per-axis breakpoint
\* sequences generateBox walks are non-decreasing.
C27_BreakpointsAnyPercentages ==
    (boxPolys # NotRun /\ BreakpointRecord(params)) => BreakpointsNonDecreasing(params)

\* C27: for every Parameter Record with W > 2*wt, D > 2*wt and division
\* percentages in 1..99 (in any order) of which, along each axis, any two are
\* at least 100*wt/I apart and each is at least 50*wt/I away from 0 and from
\* 100 (I the inner extent W - 2*wt or D - 2*wt), the per-axis breakpoint
\* sequences generateBox walks (outer edge, [chamfer inset,] inner edge, each
\* divider's centre - wt/2 and centre + wt/2 in ascending divider order, inner
\* edge, [chamfer inset,] outer edge) are non-decreasing, so no grid cell has
\* negative width and no divider band reaches into an outer wall.
C27_BreakpointsNonDecreasing ==
    (/\ boxPolys # NotRun
     /\ BreakpointRecord(params)
     /\ PercentagesApart(params.divisionsX, params.wallThickness, boxIw(params))
     /\ PercentagesApart(params.divisionsZ, params.wallThickness, boxId(params)))
    => /\ BreakpointsNonDecreasing(params)
       /\ \A f \in 1..Len(boxPolys.polygons) : \A v \in 1..Len(boxPolys.polygons[f]) :
             /\ Abs(boxPolys.polygons[f][v][1]) <= boxW2(params)
             /\ Abs(boxPolys.polygons[f][v][2]) <= boxD2(params)
       /\ \A k \in 1..Len(xDivs(params)) :
             Abs(xDivs(params)[k]) + params.wallThickness \div 2 <= boxIw2(params)
       /\ \A k \in 1..Len(yDivs(params)) :
             Abs(yDivs(params)[k]) + params.wallThickness \div 2 <= boxId2(params)

\* A generated, chamfered box whose dividers are listed in descending order,
\* the outer two bands one step away from the inner walls
C27_Witness ==
    /\ boxPolys # NotRun
    /\ boxC(params) > 0
    /\ BreakpointRecord(params)
    /\ Len(params.divisionsX) = 2 /\ params.divisionsX[1] > params.divisionsX[2]
    /\ PercentagesApart(params.divisionsX, params.wallThickness, boxIw(params))
    /\ PercentagesApart(params.divisionsZ, params.wallThickness, boxId(params))
    /\ ~PercentagesApart(<<params.divisionsX[2] - 1>>, params.wallThickness, boxIw(params))

-----------------------------------------------------------------------------
(* Claims about the corner cells of the flat lid                           *)

VerticesOf(q) == {q[v] : v \in 1..Len(q)}

\* The polygons of the lid with three vertices: the corner triangles
CornerTriangles(polys) == {f \in 1..Len(polys) : Len(polys[f]) = 3}

\* The vertical polygons of the lid that run diagonally: the chamfer strips
DiagonalStrips(polys) ==
    {f \in 1..Len(polys) :
        /\ Len(polys[f]) = 4
        /\ WindingNormal(polys[f])[3] = 0
        /\ WindingNormal(polys[f])[1] # 0 /\ WindingNormal(polys[f])[2] # 0}

\* The first and last cell of each axis are c wide
CornerCellsAreChamfer(p) ==
    LET X == xB(p)
        Y == yB(p)
        c == flatC(p)
    IN  /\ X[1] = -(p.width \div 2) /\ X[2] = -(p.width \div 2) + c
        /\ X[Len(X)] = p.width \div 2 /\ X[Len(X) - 1] = p.width \div 2 - c
        /\ Y[1] = -(p.depth \div 2) /\ Y[2] = -(p.depth \div 2) + c
        /\ Y[Len(Y)] = p.depth \div 2 /\ Y[Len(Y) - 1] = p.depth \div 2 - c

\* C28: in generateFlatLid with effective chamfer c > 0, for every set of
\* divisions and every tolerance, the four corner cells of the grid are
\* exactly the c-by-c squares at the outer corners (xB[1] = -W/2 + c,
\* xB[nx-1] = W/2 - c, and likewise in Y), so the corner triangles' diagonal
\* edges coincide with the bottom and top edges of the four diagonal chamfer
\* strips and the outer walls skip exactly the chamfered part of each side.
C28_CornerCells ==
    (flatLid # NotRun /\ BoxValid(params) /\ flatC(params) > 0) =>
        /\ CornerCellsAreChamfer(params)
        /\ \A t \in CornerTriangles(flatLid.polygons) :
              \E s \in DiagonalStrips(flatLid.polygons) :
                  Cardinality(VerticesOf(flatLid.polygons[t])
                                \cap VerticesOf(flatLid.polygons[s])) = 2
        /\ \A f \in 1..Len(flatLid.polygons) :
              (/\ Len(flatLid.polygons[f]) = 4
               /\ \A v \in 1..4 : Abs(flatLid.polygons[f][v][1]) = params.width \div 2)
              => \A v \in 1..4 :
                    Abs(flatLid.polygons[f][v][2]) <= params.depth \div 2 - flatC(params)

-----------------------------------------------------------------------------
(* Claims about neighbouring hinge positions                               *)

\* The X-interval of a solid
IntervalX(s) == [lo |-> Extent(s).lo[1], hi |-> Extent(s).hi[1]]

Intersects(a, b) == a.lo <= b.hi /\ b.lo <= a.hi

\* The widths and hinge diameters the control panel allows
UiHingeRecord(p) ==
    /\ 10 * MM <= p.width /\ p.width <= 200 * MM
    /\ 6 * MM <= p.hingeDiameter /\ p.hingeDiameter <= 14 * MM

\* No lid knuckle meets a box knuckle of a neighbouring hinge position
NeighboursApart(box, lid) ==
    \A i \in 1..Len(lid) : \A j \in 1..Len(lid) :
        (j = i - 1 \/ j = i + 1) =>
            /\ ~Intersects(IntervalX(lid[i]), IntervalX(box[2 * j - 1]))
            /\ ~Intersects(IntervalX(lid[i]), IntervalX(box[2 * j]))

\* Every knuckle lies along the back edge of the box
WithinBackEdge(parts, width) ==
    \A k \in 1..Len(parts) :
        -(width \div 2) <= IntervalX(parts[k]).lo /\ IntervalX(parts[k]).hi <= width \div 2

\* C29: for hingeCount in {2,3} and every width (10..200) and hingeDiameter
\* (6..14) the UI allows, knuckles belonging to different hinge positions do
\* not collide: no lid knuckle's X-interval [xC - K/2, xC + K/2] intersects
\* the X-interval of a box knuckle of a neighbouring hinge position, and every
\* knuckle lies within the box's back edge X in [-W/2, W/2].
C29_HingesApart ==
    (HingesRan /\ params.hingeCount \in {2, 3} /\ UiHingeRecord(params)) =>
        /\ NeighboursApart(Parts(hingeBoxJscad), Parts(hingeLidJscad))
        /\ WithinBackEdge(Parts(hingeBoxJscad), params.width)
        /\ WithinBackEdge(Parts(hingeLidJscad), params.width)

\* The same on the records whose width exceeds 8 * K + 4 * HINGE_GAP
C29_SmallKnuckles ==
    (HingesRan /\ params.hingeCount \in {2, 3} /\ UiHingeRecord(params)
        /\ 8 * params.hingeDiameter + 4 * HINGE_GAP < params.width) =>
        /\ NeighboursApart(Parts(hingeBoxJscad), Parts(hingeLidJscad))
        /\ WithinBackEdge(Parts(hingeBoxJscad), params.width)
        /\ WithinBackEdge(Parts(hingeLidJscad), params.width)

-----------------------------------------------------------------------------
(* Claims about the lid and the hinges in the App                          *)

HingeStates ==
    <<hingeBoxJscad, hingeLidJscad, hingePinJscad, hingeBoxGeometry, hingeLidGeometry>>

AnyHingePresent == \E k \in 1..Len(HingeStates) : HingeStates[k] # Null
AllHingePresent == \A k \in 1..Len(HingeStates) : HingeStates[k] # Null
LidPresent == lidJscad # Null /\ lidGeometry # Null
LidAbsent == lidJscad = Null /\ lidGeometry = Null

\* C30: in every state the App reaches by any sequence of parameter changes,
\* hinge geometry (box knuckles, lid knuckles, pins) is present only if lid
\* geometry is present; and after a regeneration that completes without
\* error, lid geometry is present if and only if includeLid is set, and hinge
\* geometry is present if and only if both includeLid and includeHinge are
\* set, so a box with includeHinge but without includeLid is exported without
\* knuckles.
C30_HingeOnlyWithLid ==
    /\ AnyHingePresent => LidPresent
    /\ effect = "done" =>
          /\ IF params.includeLid THEN LidPresent ELSE LidAbsent
          /\ IF params.includeLid /\ params.includeHinge
             THEN AllHingePresent ELSE ~AnyHingePresent
    /\ (effect = "done" /\ params.includeHinge /\ ~params.includeLid) =>
          LET files == handleExportBody(<<>>)
          IN  /\ Len(files) = 1
              /\ files[1].filename[1] = "box_"
              /\ Reparsed(files[1].text) = PositionsOf(boxJscad)
              /\ SeqSet(Reparsed(files[1].text))
                   \cap SeqSet(PositionsOf(generateBoxHingeKnuckles(params))) = {}

\* A record with includeHinge and without includeLid was regenerated: there
\* is a box to export and neither lid nor knuckles
C30_Witness ==
    /\ effect = "done"
    /\ params.includeHinge /\ ~params.includeLid
    /\ boxJscad # Null /\ geometry # Null
    /\ LidAbsent /\ ~AnyHingePresent

=============================================================================
